---------------------------- MODULE Spec2Model ----------------------------
(***************************************************************************)
(* A model of TransMatrix: the document model and its serialization        *)
(* (models/document.py), the pattern guard and the translation batcher     *)
(* (translation/translator.py, translation/document_translator.py) and the *)
(* layout-fit reconstructor (reconstruction/pdf_rebuilder.py).             *)
(*                                                                         *)
(* Strings are sequences of one-character strings, so that slicing,        *)
(* searching and replacing are computed as Python computes them.  An       *)
(* Optional value is a sequence of length at most one: None is << >> and   *)
(* a present value v is << v >>.                                           *)
(***************************************************************************)
EXTENDS Integers, Sequences, FiniteSets, TLC

VARIABLES
    \* NLLBTranslator._protect_patterns / _restore_patterns on one text
    gText, gProtected, gClean, gTranslated, gRestored, gPc,
    \* Translator.translate_batch called by DocumentTranslator._translate_page
    kind, batch_size, texts, non_empty, protected, texts_to_translate,
    translated, offset, results, calls, exc, spanTranslated, bPc,
    \* a Document, its dict form and copy, its persisted JSON and the reload
    document, asDict, copy, persisted, loaded, dPc,
    \* PDFRebuilder._calculate_font_size on one text, box width and size
    fLen, fWidth, fSize, fResult, fPc,
    \* PDFRebuilder.rebuild over the document
    pdfLen, pageNum, todoSpans, todoCells, ops, rExc, rPc,
    \* PDFRebuilder._get_font on one font name and style bits
    nName, nBold, nItalic, nFont, nPc,
    \* Table.to_matrix and Table.get_cell on one table
    table, matrix, found, mPc,
    \* TableExtractor._convert_table on one detected grid
    grid, tableBox, converted, cPc,
    \* DocumentTranslator.translate_document over the document
    tKind, tTables, tPage, tCalls,
    \* TableExtractor.enrich_document on the document
    all_tables, docBefore

guardVars == <<gText, gProtected, gClean, gTranslated, gRestored, gPc>>

batchVars == <<kind, batch_size, texts, non_empty, protected, texts_to_translate,
               translated, offset, results, calls, exc, spanTranslated, bPc>>

docVars == <<document, asDict, copy, persisted, loaded, dPc>>

fitVars == <<fLen, fWidth, fSize, fResult, fPc>>

rebuildVars == <<pdfLen, pageNum, todoSpans, todoCells, ops, rExc, rPc>>

fontVars == <<nName, nBold, nItalic, nFont, nPc>>

matrixVars == <<table, matrix, found, mPc>>

convertVars == <<grid, tableBox, converted, cPc>>

translateVars == <<tKind, tTables, tPage, tCalls>>

enrichVars == <<all_tables, docBefore>>

vars == <<guardVars, batchVars, docVars, fitVars, rebuildVars, fontVars, matrixVars, convertVars, translateVars, enrichVars>>

\* what an action of one component leaves alone
notGuard == <<batchVars, docVars, fitVars, rebuildVars, fontVars, matrixVars, convertVars, translateVars, enrichVars>>

notBatch == <<guardVars, docVars, fitVars, rebuildVars, fontVars, matrixVars, convertVars, translateVars, enrichVars>>

notDoc == <<guardVars, batchVars, fitVars, rebuildVars, fontVars, matrixVars, convertVars, translateVars, enrichVars>>

notFit == <<guardVars, batchVars, docVars, rebuildVars, fontVars, matrixVars, convertVars, translateVars, enrichVars>>

notRebuild == <<guardVars, batchVars, fitVars, fontVars, matrixVars, convertVars, translateVars, enrichVars>>

notFont == <<guardVars, batchVars, docVars, fitVars, rebuildVars, matrixVars, convertVars, translateVars, enrichVars>>

notMatrix == <<guardVars, batchVars, docVars, fitVars, rebuildVars, fontVars, convertVars, translateVars, enrichVars>>

notConvert == <<guardVars, batchVars, docVars, fitVars, rebuildVars, fontVars, matrixVars, translateVars, enrichVars>>

notTranslate == <<guardVars, batchVars, fitVars, rebuildVars, fontVars, matrixVars, convertVars, enrichVars>>

notEnrich == <<guardVars, batchVars, fitVars, rebuildVars, fontVars, matrixVars, convertVars, translateVars>>

---------------------------------------------------------------------------
(* Optional values *)

None == << >>

Some(v) == << v >>

---------------------------------------------------------------------------
(* Python str operations on sequences of characters *)

Digit == {"0", "1", "2", "3", "4", "5", "6", "7", "8", "9"}

Upper == {"A", "B", "C", "D", "E", "F", "G", "H", "I", "J", "K", "L", "M",
          "N", "O", "P", "Q", "R", "S", "T", "U", "V", "W", "X", "Y", "Z"}

Lower == {"a", "b", "c", "d", "e", "f", "g", "h", "i", "j", "k", "l", "m",
          "n", "o", "p", "q", "r", "s", "t", "u", "v", "w", "x", "y", "z"}

\* what the regex class \w matches
WordChar == Digit \cup Upper \cup Lower \cup {"_"}

\* what str.strip() removes
Whitespace == {" ", "\t", "\n"}

\* not (t and t.strip())
IsBlank(t) == \A k \in 1..Len(t) : t[k] \in Whitespace

\* s[a:b] with 1-based inclusive positions a..b
Slice(s, a, b) == [k \in 1..(b - a + 1) |-> s[a + k - 1]]

\* s.startswith(old, pos-1)
OccursAt(s, old, pos) ==
    /\ pos + Len(old) - 1 <= Len(s)
    /\ \A k \in 1..Len(old) : s[pos + k - 1] = old[k]

\* s.find(old) + 1, and 0 when old does not occur
Find(s, old) ==
    LET hits == {p \in 1..Len(s) : OccursAt(s, old, p)}
    IN  IF hits = {} THEN 0 ELSE CHOOSE p \in hits : \A q \in hits : p <= q

\* s.replace(old, new, 1), old non-empty
ReplaceFirst(s, old, new) ==
    LET p == Find(s, old)
    IN  IF p = 0 THEN s
        ELSE Slice(s, 1, p - 1) \o new \o Slice(s, p + Len(old), Len(s))

\* s.replace(old, new), old non-empty: every non-overlapping occurrence, left to right
RECURSIVE ReplaceAll(_, _, _)
ReplaceAll(s, old, new) ==
    LET p == Find(s, old)
    IN  IF p = 0 THEN s
        ELSE Slice(s, 1, p - 1) \o new
             \o ReplaceAll(Slice(s, p + Len(old), Len(s)), old, new)

\* the sequences of a sequence joined in order
RECURSIVE Concat(_)
Concat(seqs) == IF seqs = << >> THEN << >> ELSE Head(seqs) \o Concat(Tail(seqs))

\* str(n) for n >= 0
RECURSIVE Str(_)
Str(n) ==
    LET d == <<"0", "1", "2", "3", "4", "5", "6", "7", "8", "9">>
    IN  IF n < 10 THEN <<d[n + 1]>> ELSE Str(n \div 10) \o <<d[(n % 10) + 1]>>

---------------------------------------------------------------------------
(* TranslationConfig.preserve_patterns: the six regular expressions *)

\* number of patterns in preserve_patterns
NumPatterns == 6

\* length of the longest run of characters of class cls starting at pos
RECURSIVE RunLen(_, _, _)
RunLen(s, pos, cls) ==
    IF pos <= Len(s) /\ s[pos] \in cls THEN 1 + RunLen(s, pos + 1, cls) ELSE 0

\* \b holds between positions pos-1 and pos
Boundary(s, pos) ==
    LET before == pos > 1 /\ s[pos - 1] \in WordChar
        after  == pos <= Len(s) /\ s[pos] \in WordChar
    IN  before # after

\* length of the match of pattern i (0-based) that starts at pos, 0 when none
MatchLen(i, s, pos) ==
    CASE i = 0 ->  \* \d+[.,]\d+
            LET a == RunLen(s, pos, Digit)
                b == RunLen(s, pos + a + 1, Digit)
            IN  IF a > 0 /\ pos + a <= Len(s) /\ s[pos + a] \in {".", ","} /\ b > 0
                THEN a + 1 + b ELSE 0
      [] i = 1 ->  \* \d+
            RunLen(s, pos, Digit)
      [] i = 2 ->  \* m²|m2|km|cm|mm
            IF pos + 1 <= Len(s)
               /\ Slice(s, pos, pos + 1) \in
                    {<<"m", "²">>, <<"m", "2">>, <<"k", "m">>, <<"c", "m">>, <<"m", "m">>}
            THEN 2 ELSE 0
      [] i = 3 ->  \* €|\$|£
            IF s[pos] \in {"€", "$", "£"} THEN 1 ELSE 0
      [] i = 4 ->  \* [A-Z]{2,}
            LET a == RunLen(s, pos, Upper) IN IF a >= 2 THEN a ELSE 0
      [] OTHER ->  \* \b[A-Z]\d+\b
            LET b == RunLen(s, pos + 1, Digit)
            IN  IF s[pos] \in Upper /\ Boundary(s, pos) /\ b > 0
                   /\ Boundary(s, pos + 1 + b)
                THEN 1 + b ELSE 0

\* [m.group() for m in pattern.finditer(s)], scanning from pos
RECURSIVE FindIter(_, _, _)
FindIter(i, s, pos) ==
    IF pos > Len(s) THEN << >>
    ELSE LET n == MatchLen(i, s, pos)
         IN  IF n > 0
             THEN <<Slice(s, pos, pos + n - 1)>> \o FindIter(i, s, pos + n)
             ELSE FindIter(i, s, pos + 1)

---------------------------------------------------------------------------
(* NLLBTranslator._protect_patterns and _restore_patterns *)

\* f"__PROT_{i}_{j}__"
Placeholder(i, j) ==
    <<"_", "_", "P", "R", "O", "T", "_">> \o Str(i) \o <<"_">> \o Str(j) \o <<"_", "_">>

\* the inner loop over the matches of pattern i; st = [protected, clean]
RECURSIVE ProtectMatches(_, _, _, _)
ProtectMatches(i, matches, j, st) ==
    IF j >= Len(matches) THEN st
    ELSE ProtectMatches(i, matches, j + 1,
            [protected |-> Append(st.protected, <<Placeholder(i, j), matches[j + 1]>>),
             clean     |-> ReplaceFirst(st.clean, matches[j + 1], Placeholder(i, j))])

\* the outer loop over the patterns, each scanning the original text
RECURSIVE ProtectFrom(_, _, _)
ProtectFrom(i, text, st) ==
    IF i >= NumPatterns THEN st
    ELSE ProtectFrom(i + 1, text, ProtectMatches(i, FindIter(i, text, 1), 0, st))

\* _protect_patterns(text): the dict (in insertion order) and the guarded text
ProtectPatterns(text) == ProtectFrom(0, text, [protected |-> << >>, clean |-> text])

\* the entries applied in dict order up to the first whose placeholder is
\* not in the text
RECURSIVE RestoreUntilAbsent(_, _)
RestoreUntilAbsent(text, prot) ==
    IF prot = << >> \/ Find(text, prot[1][1]) = 0 THEN text
    ELSE RestoreUntilAbsent(ReplaceAll(text, prot[1][1], prot[1][2]), Tail(prot))

\* _restore_patterns(text, protected): every entry applied in dict order
RECURSIVE RestorePatterns(_, _)
RestorePatterns(text, prot) ==
    IF prot = << >> THEN text
    ELSE RestorePatterns(ReplaceAll(text, prot[1][1], prot[1][2]), Tail(prot))

---------------------------------------------------------------------------
(* The pattern guard around one backend call: protect, translate, restore *)

\* longest text the guard is run on
MaxTextLen == 3

\* characters the texts are drawn from: digits, a decimal separator, a
\* currency symbol, an uppercase letter, a blank and a plain letter
Alphabet == {"1", "0", ".", "€", "A", " ", "x"}

RECURSIVE StringsUpTo(_)
StringsUpTo(n) ==
    IF n = 0 THEN {<< >>}
    ELSE LET shorter == StringsUpTo(n - 1)
         IN  shorter \cup {Append(s, c) : s \in {t \in shorter : Len(t) = n - 1},
                                           c \in Alphabet}

\* what the translation backend may return for one guarded string: the string
\* itself, the string inside a different sentence, or a text that drops it
BackendOutputs(g) == {g, <<"T", " ">> \o g, <<"T">>}

\* the guarded string with one of the placeholders it holds dropped
DroppedOutputs(g, prot) ==
    {ReplaceFirst(g, prot[e][1], << >>) : e \in {k \in 1..Len(prot) : Find(g, prot[k][1]) > 0}}

\* the state of the guard while another component runs
GuardIdle ==
    /\ gText = << >>
    /\ gProtected = << >>
    /\ gClean = << >>
    /\ gTranslated = << >>
    /\ gRestored = << >>
    /\ gPc = "idle"

GuardStart ==
    /\ gText \in StringsUpTo(MaxTextLen)
    /\ gProtected = << >>
    /\ gClean = << >>
    /\ gTranslated = << >>
    /\ gRestored = << >>
    /\ gPc = "ready"

\* prot, clean = self._protect_patterns(text)
GuardProtect ==
    /\ gPc = "ready"
    /\ gProtected' = ProtectPatterns(gText).protected
    /\ gClean' = ProtectPatterns(gText).clean
    /\ gPc' = "protected"
    /\ UNCHANGED <<gText, gTranslated, gRestored>>
    /\ UNCHANGED notGuard

\* the backend translates the guarded text
GuardBackend ==
    /\ gPc = "protected"
    /\ \E out \in BackendOutputs(gClean) \cup DroppedOutputs(gClean, gProtected) :
          gTranslated' = out
    /\ gPc' = "translated"
    /\ UNCHANGED <<gText, gProtected, gClean, gRestored>>
    /\ UNCHANGED notGuard

\* self._restore_patterns(trans, prot)
GuardRestore ==
    /\ gPc = "translated"
    /\ gRestored' = RestorePatterns(gTranslated, gProtected)
    /\ gPc' = "restored"
    /\ UNCHANGED <<gText, gProtected, gClean, gTranslated>>
    /\ UNCHANGED notGuard

GuardNext == GuardProtect \/ GuardBackend \/ GuardRestore

---------------------------------------------------------------------------
(* Translator.translate_batch: NLLBTranslator, DeepLTranslator and          *)
(* DummyTranslator, called with the texts of a page's spans                 *)

\* most texts in one call
MaxTexts == 3

\* largest TranslationConfig.batch_size tried
MaxBatch == 2

\* the texts a span may hold: empty, whitespace-only, a plain word, an amount
TextPool == {<< >>, <<" ">>, <<"a">>, <<"7", "€">>}

RECURSIVE SeqsUpTo(_, _)
SeqsUpTo(S, n) ==
    IF n = 0 THEN {<< >>}
    ELSE LET shorter == SeqsUpTo(S, n - 1)
         IN  shorter \cup {Append(q, x) : q \in {t \in shorter : Len(t) = n - 1},
                                           x \in S}

Min(a, b) == IF a <= b THEN a ELSE b

\* DummyTranslator.prefix
DummyPrefix == <<"[", "T", "R", "A", "N", "S", "L", "A", "T", "E", "D", "]", " ">>

\* the exception a failing backend call raises: the backend's own, which knows
\* of no chunk; translate_batch has no handler and lets it through as it is
BackendException == [type |-> "BackendException", texts |-> None]

\* a filter that tests only `t`, not `t.strip()`
NonEmptyNoStrip(ts) ==
    SelectSeq([i \in 1..Len(ts) |-> i], LAMBDA i : ts[i] # << >>)

\* [i for i, t in enumerate(texts) if t and t.strip()], as 1-based positions
NonEmpty(ts) ==
    SelectSeq([i \in 1..Len(ts) |-> i], LAMBDA i : ~IsBlank(ts[i]))

\* a slice that always starts at the head: texts_to_translate[:size]
ChunkFromHead(ttt, i, size) == Slice(ttt, 1, Min(size, Len(ttt)))

\* a slice one string too long: texts_to_translate[i:i + size + 1]
ChunkOneMore(ttt, i, size) == Slice(ttt, i + 1, Min(i + size + 1, Len(ttt)))

\* texts_to_translate[i:i + size] for the 0-based offset i
ChunkOf(ttt, i, size) == Slice(ttt, i + 1, Min(i + size, Len(ttt)))

\* the strings one backend call receives: batch_size of them from NLLB's loop,
\* all of them in DeepL's single call
ChunkSize == IF kind = "deepl" THEN Len(texts_to_translate) ELSE batch_size

\* [self._restore_patterns(trans, prot) for trans, prot in zip(translated, protected)]
RestoreAll(trans, prots) ==
    [k \in 1..Min(Len(trans), Len(prots)) |-> RestorePatterns(trans[k], prots[k])]

\* a scatter that returns the translated strings alone: results = restored
ScatterCompact(ts, idx, restored) == restored

\* results = list(texts); for (orig_idx, _), trans in zip(non_empty, restored):
\*     results[orig_idx] = trans
Scatter(ts, idx, restored) ==
    [i \in 1..Len(ts) |->
        IF \E k \in 1..Min(Len(idx), Len(restored)) : idx[k] = i
        THEN restored[CHOOSE k \in 1..Min(Len(idx), Len(restored)) : idx[k] = i]
        ELSE ts[i]]

\* DummyTranslator.translate
DummyTranslate(t) == IF IsBlank(t) THEN t ELSE DummyPrefix \o t

BatchIdle ==
    /\ kind = "none"
    /\ batch_size = 0
    /\ texts = << >>
    /\ non_empty = << >>
    /\ protected = << >>
    /\ texts_to_translate = << >>
    /\ translated = << >>
    /\ offset = 0
    /\ results = << >>
    /\ calls = << >>
    /\ exc = None
    /\ spanTranslated = << >>
    /\ bPc = "idle"

BatchStart ==
    /\ kind \in {"nllb", "deepl", "dummy"}
    /\ batch_size \in 1..MaxBatch
    /\ texts \in SeqsUpTo(TextPool, MaxTexts)
    /\ non_empty = << >>
    /\ protected = << >>
    /\ texts_to_translate = << >>
    /\ translated = << >>
    /\ offset = 0
    /\ results = << >>
    /\ calls = << >>
    /\ exc = None
    /\ spanTranslated = [k \in 1..Len(texts) |-> None]
    /\ bPc = "call"

\* translate_batch up to its first backend call
BatchBegin ==
    /\ bPc = "call"
    /\ IF kind = "dummy"
       THEN /\ results' = [k \in 1..Len(texts) |-> DummyTranslate(texts[k])]
            /\ bPc' = "returned"
            /\ UNCHANGED <<non_empty, protected, texts_to_translate>>
       ELSE IF texts = << >> \/ NonEmpty(texts) = << >>
       THEN /\ results' = texts
            /\ non_empty' = NonEmpty(texts)
            /\ bPc' = "returned"
            /\ UNCHANGED <<protected, texts_to_translate>>
       ELSE /\ non_empty' = NonEmpty(texts)
            /\ protected' =
                 IF kind = "nllb"
                 THEN [k \in 1..Len(NonEmpty(texts)) |->
                          ProtectPatterns(texts[NonEmpty(texts)[k]]).protected]
                 ELSE << >>
            /\ texts_to_translate' =
                 [k \in 1..Len(NonEmpty(texts)) |->
                     IF kind = "nllb"
                     THEN ProtectPatterns(texts[NonEmpty(texts)[k]]).clean
                     ELSE texts[NonEmpty(texts)[k]]]
            /\ bPc' = "loop"
            /\ UNCHANGED results
    /\ UNCHANGED <<kind, batch_size, texts, translated, offset, calls, exc,
                   spanTranslated>>
    /\ UNCHANGED notBatch

\* one backend call that returns: a result per string, or (a backend that
\* breaks its contract) one result too few
BatchChunk ==
    /\ bPc = "loop"
    /\ offset < Len(texts_to_translate)
    /\ LET batch == ChunkOf(texts_to_translate, offset, ChunkSize)
       IN  \E pick \in [1..Len(batch) -> {"same", "sentence", "drop"}],
              short \in BOOLEAN :
             LET full == [k \in 1..Len(batch) |->
                            CASE pick[k] = "same" -> batch[k]
                              [] pick[k] = "sentence" -> <<"T", " ">> \o batch[k]
                              [] OTHER -> <<"T">>]
                 out == IF short THEN Slice(full, 1, Len(full) - 1) ELSE full
             IN  /\ translated' = translated \o out
                 /\ calls' = Append(calls, [batch |-> batch, out |-> out,
                                            raised |-> FALSE])
    /\ offset' = offset + ChunkSize
    /\ UNCHANGED <<kind, batch_size, texts, non_empty, protected,
                   texts_to_translate, results, exc, spanTranslated, bPc>>
    /\ UNCHANGED notBatch

\* one backend call that raises: nothing catches it, so it leaves
\* translate_batch and its caller
BatchRaise ==
    /\ bPc = "loop"
    /\ offset < Len(texts_to_translate)
    /\ calls' = Append(calls,
                       [batch |-> ChunkOf(texts_to_translate, offset, ChunkSize),
                        out |-> << >>, raised |-> TRUE])
    /\ exc' = Some(BackendException)
    /\ bPc' = "raised"
    /\ UNCHANGED <<kind, batch_size, texts, non_empty, protected,
                   texts_to_translate, translated, offset, results, spanTranslated>>
    /\ UNCHANGED notBatch

\* translate_batch after its last backend call: restore, scatter, return
BatchFinish ==
    /\ bPc = "loop"
    /\ offset >= Len(texts_to_translate)
    /\ results' = Scatter(texts, non_empty,
                          IF kind = "nllb" THEN RestoreAll(translated, protected)
                          ELSE translated)
    /\ bPc' = "returned"
    /\ UNCHANGED <<kind, batch_size, texts, non_empty, protected,
                   texts_to_translate, translated, offset, calls, exc,
                   spanTranslated>>
    /\ UNCHANGED notBatch

\* the caller: for span, trans in zip(all_spans, translated): span.translated_text = trans
PageAssign ==
    /\ bPc = "returned"
    /\ texts # << >>
    /\ spanTranslated' =
         [k \in 1..Len(texts) |->
             IF k <= Len(results) THEN Some(results[k]) ELSE spanTranslated[k]]
    /\ bPc' = "done"
    /\ UNCHANGED <<kind, batch_size, texts, non_empty, protected,
                   texts_to_translate, translated, offset, results, calls, exc>>
    /\ UNCHANGED notBatch

BatchNext == BatchBegin \/ BatchChunk \/ BatchRaise \/ BatchFinish \/ PageAssign

---------------------------------------------------------------------------
(* models/document.py: the entities, to_dict / from_dict, and JSON          *)

\* Python values as to_dict builds them and json sees them
PyNone == [t |-> "None"]

PyStr(s) == [t |-> "str", v |-> s]

PyNum(n) == [t |-> "num", v |-> n]

PyList(q) == [t |-> "list", v |-> q]

PyDict(r) == [t |-> "dict", v |-> r]

\* an Optional[str] field as a Python value, and back
OptToPy(o) == IF o = None THEN PyNone ELSE PyStr(o[1])

PyToOpt(x) == IF x.t = "None" THEN None ELSE Some(x.v)

\* d[key]
Item(d, key) == d.v[key]

\* d.get(key, default)
Get(d, key, default) == IF key \in DOMAIN d.v THEN d.v[key] ELSE default

\* json.dumps: None -> null, str -> string, int/float -> number, list -> array,
\* dict -> object; the JSON text is held as its parse tree
RECURSIVE JsonDumps(_)
JsonDumps(x) ==
    CASE x.t = "None" -> [j |-> "null"]
      [] x.t = "str"  -> [j |-> "string", v |-> x.v]
      [] x.t = "num"  -> [j |-> "number", v |-> x.v]
      [] x.t = "list" -> [j |-> "array", v |-> [k \in DOMAIN x.v |-> JsonDumps(x.v[k])]]
      [] x.t = "dict" -> [j |-> "object", v |-> [k \in DOMAIN x.v |-> JsonDumps(x.v[k])]]

\* json.loads
RECURSIVE JsonLoads(_)
JsonLoads(y) ==
    CASE y.j = "null"   -> PyNone
      [] y.j = "string" -> PyStr(y.v)
      [] y.j = "number" -> PyNum(y.v)
      [] y.j = "array"  -> PyList([k \in DOMAIN y.v |-> JsonLoads(y.v[k])])
      [] y.j = "object" -> PyDict([k \in DOMAIN y.v |-> JsonLoads(y.v[k])])

MapSeq(F(_), q) == [k \in 1..Len(q) |-> F(q[k])]

\* BBox
BBoxToDict(b) ==
    PyDict([x0 |-> PyNum(b.x0), y0 |-> PyNum(b.y0), x1 |-> PyNum(b.x1), y1 |-> PyNum(b.y1)])

BBoxFromDict(d) ==
    [cls |-> "BBox", x0 |-> Item(d, "x0").v, y0 |-> Item(d, "y0").v,
     x1 |-> Item(d, "x1").v, y1 |-> Item(d, "y1").v]

\* TextSpan
TextSpanToDict(o) ==
    PyDict([text |-> PyStr(o.text), bbox |-> BBoxToDict(o.bbox), font |-> PyStr(o.font),
            size |-> PyNum(o.size), color |-> PyNum(o.color), flags |-> PyNum(o.flags),
            translated_text |-> OptToPy(o.translated_text)])

TextSpanFromDict(d) ==
    [cls |-> "TextSpan", text |-> Item(d, "text").v, bbox |-> BBoxFromDict(Item(d, "bbox")),
     font |-> Item(d, "font").v, size |-> Item(d, "size").v, color |-> Item(d, "color").v,
     flags |-> Item(d, "flags").v,
     translated_text |-> PyToOpt(Get(d, "translated_text", PyNone))]

\* TextLine
TextLineToDict(o) ==
    PyDict([bbox |-> BBoxToDict(o.bbox), spans |-> PyList(MapSeq(TextSpanToDict, o.spans))])

TextLineFromDict(d) ==
    [cls |-> "TextLine", bbox |-> BBoxFromDict(Item(d, "bbox")),
     spans |-> MapSeq(TextSpanFromDict, Item(d, "spans").v)]

\* TextBlock
TextBlockToDict(o) ==
    PyDict([bbox |-> BBoxToDict(o.bbox), lines |-> PyList(MapSeq(TextLineToDict, o.lines))])

TextBlockFromDict(d) ==
    [cls |-> "TextBlock", bbox |-> BBoxFromDict(Item(d, "bbox")),
     lines |-> MapSeq(TextLineFromDict, Item(d, "lines").v)]

\* ImageBlock: to_dict leaves image_data out, from_dict takes its default
ImageBlockToDict(o) ==
    PyDict([bbox |-> BBoxToDict(o.bbox), width |-> PyNum(o.width),
            height |-> PyNum(o.height), ocr_text |-> OptToPy(o.ocr_text)])

ImageBlockFromDict(d) ==
    [cls |-> "ImageBlock", bbox |-> BBoxFromDict(Item(d, "bbox")),
     width |-> Item(d, "width").v, height |-> Item(d, "height").v,
     image_data |-> None,
     ocr_text |-> PyToOpt(Get(d, "ocr_text", PyNone))]

\* TableCell
TableCellToDict(o) ==
    PyDict([bbox |-> BBoxToDict(o.bbox), text |-> PyStr(o.text), row |-> PyNum(o.row),
            col |-> PyNum(o.col), rowspan |-> PyNum(o.rowspan),
            colspan |-> PyNum(o.colspan),
            translated_text |-> OptToPy(o.translated_text)])

TableCellFromDict(d) ==
    [cls |-> "TableCell", bbox |-> BBoxFromDict(Item(d, "bbox")),
     text |-> Item(d, "text").v, row |-> Item(d, "row").v, col |-> Item(d, "col").v,
     rowspan |-> Get(d, "rowspan", PyNum(1)).v, colspan |-> Get(d, "colspan", PyNum(1)).v,
     translated_text |-> PyToOpt(Get(d, "translated_text", PyNone))]

\* Table
TableToDict(o) ==
    PyDict([bbox |-> BBoxToDict(o.bbox), rows |-> PyNum(o.rows), cols |-> PyNum(o.cols),
            cells |-> PyList(MapSeq(TableCellToDict, o.cells))])

TableFromDict(d) ==
    [cls |-> "Table", bbox |-> BBoxFromDict(Item(d, "bbox")),
     rows |-> Item(d, "rows").v, cols |-> Item(d, "cols").v,
     cells |-> MapSeq(TableCellFromDict, Item(d, "cells").v)]

\* Page
PageToDict(o) ==
    PyDict([page_number |-> PyNum(o.page_number), width |-> PyNum(o.width),
            height |-> PyNum(o.height),
            text_blocks |-> PyList(MapSeq(TextBlockToDict, o.text_blocks)),
            image_blocks |-> PyList(MapSeq(ImageBlockToDict, o.image_blocks)),
            tables |-> PyList(MapSeq(TableToDict, o.tables))])

PageFromDict(d) ==
    [cls |-> "Page", page_number |-> Item(d, "page_number").v,
     width |-> Item(d, "width").v, height |-> Item(d, "height").v,
     text_blocks |-> MapSeq(TextBlockFromDict, Item(d, "text_blocks").v),
     image_blocks |-> MapSeq(ImageBlockFromDict, Item(d, "image_blocks").v),
     tables |-> MapSeq(TableFromDict, Get(d, "tables", PyList(<< >>)).v)]

\* sum(f(page) for page in pages)
RECURSIVE SumOver(_, _)
SumOver(F(_), q) == IF q = << >> THEN 0 ELSE F(Head(q)) + SumOver(F, Tail(q))

\* the blocks of the first page only
TotalTextBlocksFirstPage(doc) ==
    IF doc.pages = << >> THEN 0 ELSE Len(doc.pages[1].text_blocks)

\* Document.page_count, total_text_blocks, total_image_blocks, total_tables
PageCount(doc) == Len(doc.pages)

TotalTextBlocks(doc) == SumOver(LAMBDA pg : Len(pg.text_blocks), doc.pages)

TotalImageBlocks(doc) == SumOver(LAMBDA pg : Len(pg.image_blocks), doc.pages)

TotalTables(doc) == SumOver(LAMBDA pg : Len(pg.tables), doc.pages)

\* Document
DocumentToDict(doc) ==
    PyDict([filename |-> PyStr(doc.filename),
            source_lang |-> OptToPy(doc.source_lang),
            target_lang |-> OptToPy(doc.target_lang),
            page_count |-> PyNum(PageCount(doc)),
            total_text_blocks |-> PyNum(TotalTextBlocks(doc)),
            total_image_blocks |-> PyNum(TotalImageBlocks(doc)),
            total_tables |-> PyNum(TotalTables(doc)),
            pages |-> PyList(MapSeq(PageToDict, doc.pages))])

DocumentFromDict(d) ==
    [cls |-> "Document", filename |-> Item(d, "filename").v,
     source_lang |-> PyToOpt(Get(d, "source_lang", PyNone)),
     target_lang |-> PyToOpt(Get(d, "target_lang", PyNone)),
     pages |-> MapSeq(PageFromDict, Item(d, "pages").v)]

\* Document.to_json and Document.from_json
DocumentToJson(doc) == JsonDumps(DocumentToDict(doc))

DocumentFromJson(text) == DocumentFromDict(JsonLoads(text))

---------------------------------------------------------------------------
(* A Document as extraction, table merge and translation build it, and its  *)
(* two round trips: to_dict / from_dict and to_json / from_json             *)

\* most pages of a document
MaxPages == 2

\* most text blocks, image regions and tables of a document, taken together
MaxNodes == 2

SampleBox == [cls |-> "BBox", x0 |-> 0, y0 |-> 0, x1 |-> 40, y1 |-> 10]

\* a block of one line of one span
SampleBlock(translation) ==
    [cls |-> "TextBlock", bbox |-> SampleBox,
     lines |-> <<[cls |-> "TextLine", bbox |-> SampleBox,
                  spans |-> <<[cls |-> "TextSpan", text |-> <<"H", "o", "l", "a">>,
                               bbox |-> SampleBox, font |-> <<"A", "r", "i", "a", "l">>,
                               size |-> 1000, color |-> 0, flags |-> 16,
                               translated_text |-> translation]>>]>>]

SampleImage(data, ocr) ==
    [cls |-> "ImageBlock", bbox |-> SampleBox, width |-> 4, height |-> 3,
     image_data |-> data, ocr_text |-> ocr]

\* a table of rows x cols with the cells given
SampleTable(cells) ==
    [cls |-> "Table", bbox |-> SampleBox, rows |-> 2, cols |-> 2, cells |-> cells]

SampleCell(translation) ==
    [cls |-> "TableCell", bbox |-> SampleBox, text |-> <<"A">>, row |-> 0, col |-> 0,
     rowspan |-> 1, colspan |-> 1, translated_text |-> translation]

\* the font, style bits and box extraction may give a span: a mapped bold
\* font, and an unmapped font without and with the italic bit
SpanStyles ==
    {[font |-> <<"A", "r", "i", "a", "l">>, flags |-> 16, bbox |-> SampleBox],
     [font |-> <<"F", "o", "o">>, flags |-> 0, bbox |-> SampleBox],
     [font |-> <<"F", "o", "o">>, flags |-> 2,
      bbox |-> [cls |-> "BBox", x0 |-> 10, y0 |-> 20, x1 |-> 30, y1 |-> 32]]}

\* the block with its span given the style
Styled(block, style) ==
    [block EXCEPT !.lines[1].spans[1].font = style.font,
                  !.lines[1].spans[1].flags = style.flags,
                  !.lines[1].spans[1].bbox = style.bbox]

\* translated_text of a unit: not set, set to the empty string, to the unit's
\* own text, or to another text
Translations(text) == {None, Some(<< >>), Some(text), Some(<<"H", "i">>)}

NodeCount(doc) == TotalTextBlocks(doc) + TotalImageBlocks(doc) + TotalTables(doc)

DocIdle ==
    /\ document = None
    /\ asDict = None
    /\ copy = None
    /\ persisted = None
    /\ loaded = None
    /\ dPc = "idle"

\* Document(filename=pdf_path.name, pages=pages) before any page is added
DocStart ==
    /\ document = [cls |-> "Document", filename |-> <<"a", ".", "p", "d", "f">>,
                   pages |-> << >>, source_lang |-> None, target_lang |-> None]
    /\ asDict = None
    /\ copy = None
    /\ persisted = None
    /\ loaded = None
    /\ dPc = "edit"

\* the page with field f set to value
PageWith(doc, p, f, value) ==
    [doc EXCEPT !.pages[p] = [doc.pages[p] EXCEPT ![f] = value]]

\* a page without text blocks, images or tables is appended
AddPage ==
    /\ dPc = "edit"
    /\ Len(document.pages) < MaxPages
    /\ document' = [document EXCEPT !.pages =
                      Append(@, [cls |-> "Page", page_number |-> Len(@) + 1,
                                 width |-> 595, height |-> 842, text_blocks |-> << >>,
                                 image_blocks |-> << >>, tables |-> << >>])]
    /\ UNCHANGED <<asDict, copy, persisted, loaded, dPc>>
    /\ UNCHANGED notDoc

\* page.text_blocks.append(text_block)
AddTextBlock ==
    /\ dPc = "edit"
    /\ NodeCount(document) < MaxNodes
    /\ \E p \in 1..Len(document.pages), tr \in Translations(<<"H", "o", "l", "a">>),
          style \in SpanStyles :
          document' = PageWith(document, p, "text_blocks",
                               Append(document.pages[p].text_blocks,
                                      Styled(SampleBlock(tr), style)))
    /\ UNCHANGED <<asDict, copy, persisted, loaded, dPc>>
    /\ UNCHANGED notDoc

\* page.image_blocks.append(image_block), the image with or without its bytes
AddImageBlock ==
    /\ dPc = "edit"
    /\ NodeCount(document) < MaxNodes
    /\ \E p \in 1..Len(document.pages), data \in {None, Some(<<137, 80>>)},
          ocr \in {None, Some(<<"o">>)} :
          document' = PageWith(document, p, "image_blocks",
                               Append(document.pages[p].image_blocks,
                                      SampleImage(data, ocr)))
    /\ UNCHANGED <<asDict, copy, persisted, loaded, dPc>>
    /\ UNCHANGED notDoc

\* a table joins the page's tables: without cells, or with one cell
AddTable ==
    /\ dPc = "edit"
    /\ NodeCount(document) < MaxNodes
    /\ \E p \in 1..Len(document.pages),
          cells \in {<< >>} \cup {<<SampleCell(tr)>> : tr \in Translations(<<"A">>)} :
          document' = PageWith(document, p, "tables",
                               Append(document.pages[p].tables, SampleTable(cells)))
    /\ UNCHANGED <<asDict, copy, persisted, loaded, dPc>>
    /\ UNCHANGED notDoc

\* document.source_lang = source_lang; document.target_lang = target_lang
SetLanguages ==
    /\ dPc = "edit"
    /\ document.source_lang = None
    /\ document' = [document EXCEPT !.source_lang = Some(<<"e", "s">>),
                                    !.target_lang = Some(<<"e", "n">>)]
    /\ UNCHANGED <<asDict, copy, persisted, loaded, dPc>>
    /\ UNCHANGED notDoc

\* d = document.to_dict()
ToDict ==
    /\ dPc = "edit"
    /\ asDict' = Some(DocumentToDict(document))
    /\ dPc' = "dict"
    /\ UNCHANGED <<document, copy, persisted, loaded>>
    /\ UNCHANGED notDoc

\* Document.from_dict(d)
FromDict ==
    /\ dPc = "dict"
    /\ copy' = Some(DocumentFromDict(asDict[1]))
    /\ dPc' = "copied"
    /\ UNCHANGED <<document, asDict, persisted, loaded>>
    /\ UNCHANGED notDoc

\* document.save(path): path.write_text(self.to_json())
Save ==
    /\ dPc = "edit"
    /\ persisted' = Some(DocumentToJson(document))
    /\ dPc' = "saved"
    /\ UNCHANGED <<document, asDict, copy, loaded>>
    /\ UNCHANGED notDoc

\* Document.load(path): cls.from_json(path.read_text())
Load ==
    /\ dPc = "saved"
    /\ loaded' = Some(DocumentFromJson(persisted[1]))
    /\ dPc' = "loaded"
    /\ UNCHANGED <<document, asDict, copy, persisted>>
    /\ UNCHANGED notDoc

DocNext ==
    \/ AddPage \/ AddTextBlock \/ AddImageBlock \/ AddTable \/ SetLanguages
    \/ ToDict \/ FromDict \/ Save \/ Load

---------------------------------------------------------------------------
(* Table.to_matrix on its own *)

\* most rows and most columns of a table, and most cells it holds
MaxDim == 2

MaxCells == 2

\* the row and col a cell may carry: nothing in TableCell constrains them
CellIndexes == {-1, 0, 1, 2}

\* the position a Python list of length n gives to index i, counted from 1;
\* 0 when the index is out of range
PyIndex(i, n) ==
    IF 0 <= i /\ i < n THEN i + 1
    ELSE IF -n <= i /\ i < 0 THEN n + i + 1
    ELSE 0

\* what a call gives: the value returned, or the exception raised
Returns(v) == [exc |-> None, value |-> v]

IndexError == [exc |-> Some("IndexError"), value |-> None]

\* the loop of to_matrix from cell k on; an assignment out of range raises
RECURSIVE FillMatrix(_, _, _)
FillMatrix(t, m, k) ==
    IF k > Len(t.cells) THEN Returns(m)
    ELSE LET cell == t.cells[k]
         IN  IF cell.row < t.rows /\ cell.col < t.cols
             THEN LET r == PyIndex(cell.row, t.rows)
                      c == PyIndex(cell.col, t.cols)
                  IN  IF r = 0 \/ c = 0 THEN IndexError
                      ELSE FillMatrix(t, [m EXCEPT ![r][c] = cell.text], k + 1)
             ELSE FillMatrix(t, m, k + 1)

\* Table.to_matrix
ToMatrix(t) ==
    FillMatrix(t, [r \in 1..t.rows |-> [c \in 1..t.cols |-> << >>]], 1)

\* Table.get_cell: the first cell of the list at (row, col), or None
RECURSIVE GetCellFrom(_, _, _, _)
GetCellFrom(t, row, col, k) ==
    IF k > Len(t.cells) THEN None
    ELSE IF t.cells[k].row = row /\ t.cells[k].col = col THEN Some(t.cells[k])
    ELSE GetCellFrom(t, row, col, k + 1)

GetCell(t, row, col) == GetCellFrom(t, row, col, 1)

\* the k-th cell of a table under test, its text a letter of its own
CellLetters == <<"A", "B", "C", "D">>

MatrixCell(k, row, col) ==
    [cls |-> "TableCell", bbox |-> SampleBox, text |-> <<CellLetters[k]>>, row |-> row,
     col |-> col, rowspan |-> 1, colspan |-> 1, translated_text |-> None]

MatrixIdle ==
    /\ table = None
    /\ matrix = None
    /\ found = None
    /\ mPc = "idle"

\* Table(bbox=..., rows=..., cols=...) with no cells yet
MatrixStart ==
    /\ \E rows \in 0..MaxDim, cols \in 0..MaxDim :
          table = [cls |-> "Table", bbox |-> SampleBox, rows |-> rows, cols |-> cols,
                   cells |-> << >>]
    /\ matrix = None
    /\ found = None
    /\ mPc = "build"

\* table.cells.append(cell)
MatrixAddCell ==
    /\ mPc = "build"
    /\ Len(table.cells) < MaxCells
    /\ \E row \in CellIndexes, col \in CellIndexes :
          table' = [table EXCEPT !.cells =
                       Append(@, MatrixCell(Len(@) + 1, row, col))]
    /\ UNCHANGED <<matrix, found, mPc>>
    /\ UNCHANGED notMatrix

\* matrix = table.to_matrix()
MatrixCall ==
    /\ mPc = "build"
    /\ matrix' = Some(ToMatrix(table))
    /\ mPc' = "done"
    /\ UNCHANGED <<table, found>>
    /\ UNCHANGED notMatrix

\* cell = table.get_cell(row, col), asked once the matrix is there
MatrixGetCell ==
    /\ mPc = "done"
    /\ found = None
    /\ \E row \in CellIndexes, col \in CellIndexes :
          found' = Some([row |-> row, col |-> col, cell |-> GetCell(table, row, col)])
    /\ UNCHANGED <<table, matrix, mPc>>
    /\ UNCHANGED notMatrix

MatrixNext == MatrixAddCell \/ MatrixCall \/ MatrixGetCell

---------------------------------------------------------------------------
(* extraction/table_extractor.py: a detected grid becomes a Table.  A cell   *)
(* box coordinate is a fraction [num, den] of a point.                       *)

\* str.strip()
RECURSIVE Strip(_)
Strip(s) ==
    IF s = << >> THEN s
    ELSE IF Head(s) \in Whitespace THEN Strip(Tail(s))
    ELSE IF s[Len(s)] \in Whitespace THEN Strip(SubSeq(s, 1, Len(s) - 1))
    ELSE s

\* max(len(row) for row in grid)
RECURSIVE LongestRow(_)
LongestRow(d) ==
    IF d = << >> THEN 0
    ELSE LET rest == LongestRow(Tail(d))
         IN  IF Len(Head(d)) >= rest THEN Len(Head(d)) ELSE rest

\* the cell box with rows and columns taken for each other
EstimateCellBBoxTransposed(table_bbox, total_rows, total_cols, row, col) ==
    [cls |-> "BBox",
     x0 |-> [num |-> table_bbox.x0 * total_rows + row * (table_bbox.x1 - table_bbox.x0),
             den |-> total_rows],
     y0 |-> [num |-> table_bbox.y0 * total_cols + col * (table_bbox.y1 - table_bbox.y0),
             den |-> total_cols],
     x1 |-> [num |-> table_bbox.x0 * total_rows
                       + (row + 1) * (table_bbox.x1 - table_bbox.x0),
             den |-> total_rows],
     y1 |-> [num |-> table_bbox.y0 * total_cols
                       + (col + 1) * (table_bbox.y1 - table_bbox.y0),
             den |-> total_cols]]

\* TableExtractor._estimate_cell_bbox: cell_width = width / total_cols,
\* cell_height = height / total_rows
EstimateCellBBox(table_bbox, total_rows, total_cols, row, col) ==
    [cls |-> "BBox",
     x0 |-> [num |-> table_bbox.x0 * total_cols + col * (table_bbox.x1 - table_bbox.x0),
             den |-> total_cols],
     y0 |-> [num |-> table_bbox.y0 * total_rows + row * (table_bbox.y1 - table_bbox.y0),
             den |-> total_rows],
     x1 |-> [num |-> table_bbox.x0 * total_cols
                       + (col + 1) * (table_bbox.x1 - table_bbox.x0),
             den |-> total_cols],
     y1 |-> [num |-> table_bbox.y0 * total_rows
                       + (row + 1) * (table_bbox.y1 - table_bbox.y0),
             den |-> total_rows]]

\* TableExtractor._convert_table: None, or the Table
ConvertTable(d, bbox) ==
    LET rows == Len(d)
        cols == LongestRow(d)
        cell(row_idx, col_idx) ==
            LET cell_text == d[row_idx + 1][col_idx + 1]
                text == IF cell_text # None /\ cell_text[1] # << >> THEN cell_text[1]
                        ELSE << >>
            IN  [cls |-> "TableCell",
                 bbox |-> EstimateCellBBox(bbox, rows, cols, row_idx, col_idx),
                 text |-> Strip(text), row |-> row_idx, col |-> col_idx,
                 rowspan |-> 1, colspan |-> 1, translated_text |-> None]
    IN  IF rows = 0 \/ cols = 0 THEN None
        ELSE Some([cls |-> "Table", bbox |-> bbox, rows |-> rows, cols |-> cols,
                   cells |-> Concat([r \in 1..rows |->
                                [c \in 1..Len(d[r]) |-> cell(r - 1, c - 1)]])])

\* what a grid entry may be: nothing, or a text
GridEntries == {None, Some(<<"x", " ">>)}

\* the boxes a detected table may have
TableBoxes ==
    {SampleBox, [cls |-> "BBox", x0 |-> 10, y0 |-> 20, x1 |-> 31, y1 |-> 33]}

ConvertIdle ==
    /\ grid = << >>
    /\ tableBox = SampleBox
    /\ converted = None
    /\ cPc = "idle"

\* data = table_obj.extract(): up to MaxDim rows of up to MaxDim entries
ConvertStart ==
    /\ grid \in SeqsUpTo(SeqsUpTo(GridEntries, MaxDim), MaxDim)
    /\ tableBox \in TableBoxes
    /\ converted = None
    /\ cPc = "detected"

\* table = self._convert_table(table_obj, page.height)
ConvertCall ==
    /\ cPc = "detected"
    /\ converted' = ConvertTable(grid, tableBox)
    /\ cPc' = "converted"
    /\ UNCHANGED <<grid, tableBox>>
    /\ UNCHANGED notConvert

ConvertNext == ConvertCall

---------------------------------------------------------------------------
(* reconstruction/pdf_rebuilder.py: fonts, sizes and geometry               *)
(* Coordinates are whole points, a span's size is held in hundredths of a   *)
(* point (extraction rounds it to two decimals), a chosen font size in      *)
(* tenths of a point.                                                       *)

\* RebuilderConfig.cover_margin
CoverMargin == 2

\* RebuilderConfig.min_font_scale, in tenths
MinFontScaleTenths == 6

\* the width of a character as a share of the font size, in tenths
WidthFactorTenths == 5

\* RebuilderConfig.fallback_font
FallbackFont == <<"h", "e", "l", "v">>

UpperSeq == <<"A", "B", "C", "D", "E", "F", "G", "H", "I", "J", "K", "L", "M", "N", "O", "P", "Q", "R", "S", "T", "U", "V", "W", "X", "Y", "Z">>

LowerSeq == <<"a", "b", "c", "d", "e", "f", "g", "h", "i", "j", "k", "l", "m", "n", "o", "p", "q", "r", "s", "t", "u", "v", "w", "x", "y", "z">>

\* str.lower() of one character and of a string
LowerChar(c) ==
    IF c \in Upper THEN LowerSeq[CHOOSE k \in 1..26 : UpperSeq[k] = c] ELSE c

ToLower(s) == [k \in 1..Len(s) |-> LowerChar(s[k])]

\* s.replace(c, "") for a single character c
Without(s, c) == SelectSeq(s, LAMBDA x : x # c)

\* PDFRebuilder.FONT_MAP, in the order it is written
FontMap ==
    <<
      <<<<"a", "r", "i", "a", "l">>,
        <<"h", "e", "l", "v">>>>,
      <<<<"a", "r", "i", "a", "l", "m", "t">>,
        <<"h", "e", "l", "v">>>>,
      <<<<"a", "r", "i", "a", "l", "-", "b", "o", "l", "d", "m", "t">>,
        <<"h", "e", "b", "o">>>>,
      <<<<"a", "r", "i", "a", "l", "-", "i", "t", "a", "l", "i", "c", "m", "t">>,
        <<"h", "e", "i", "t">>>>,
      <<<<"a", "r", "i", "a", "l", "-", "b", "o", "l", "d", "i", "t", "a", "l", "i", "c", "m", "t">>,
        <<"h", "e", "b", "i">>>>,
      <<<<"a", "r", "i", "a", "l", "r", "o", "u", "n", "d", "e", "d", "m", "t", "b", "o", "l", "d">>,
        <<"h", "e", "b", "o">>>>,
      <<<<"h", "e", "l", "v", "e", "t", "i", "c", "a">>,
        <<"h", "e", "l", "v">>>>,
      <<<<"h", "e", "l", "v", "e", "t", "i", "c", "a", "-", "b", "o", "l", "d">>,
        <<"h", "e", "b", "o">>>>,
      <<<<"t", "i", "m", "e", "s">>,
        <<"t", "i", "r", "o">>>>,
      <<<<"t", "i", "m", "e", "s", "n", "e", "w", "r", "o", "m", "a", "n">>,
        <<"t", "i", "r", "o">>>>,
      <<<<"t", "i", "m", "e", "s", "-", "r", "o", "m", "a", "n">>,
        <<"t", "i", "r", "o">>>>,
      <<<<"t", "i", "m", "e", "s", "-", "b", "o", "l", "d">>,
        <<"t", "i", "b", "o">>>>,
      <<<<"c", "o", "u", "r", "i", "e", "r">>,
        <<"c", "o", "u", "r">>>>,
      <<<<"c", "o", "u", "r", "i", "e", "r", "n", "e", "w">>,
        <<"c", "o", "u", "r">>>>,
      <<<<"i", "m", "p", "a", "c", "t">>,
        <<"h", "e", "b", "o">>>>
    >>

\* key in self.FONT_MAP, and self.FONT_MAP[key]
InFontMap(key) == \E k \in 1..Len(FontMap) : FontMap[k][1] = key

FontMapAt(key) == FontMap[CHOOSE k \in 1..Len(FontMap) : FontMap[k][1] = key][2]

\* SpanFlags.ITALIC and SpanFlags.BOLD
FlagItalic == 2

FlagBold == 16

\* flags & bit, for a bit that is a power of two
HasFlag(flags, bit) == (flags \div bit) % 2 = 1

\* the lookup with the name only lowercased
GetFontKeepSeparators(original_font, is_bold, is_italic) ==
    LET font_lower == ToLower(original_font)
    IN  IF InFontMap(font_lower) THEN FontMapAt(font_lower)
        ELSE IF is_bold /\ is_italic THEN <<"h", "e", "b", "i">>
        ELSE IF is_bold THEN <<"h", "e", "b", "o">>
        ELSE IF is_italic THEN <<"h", "e", "i", "t">>
        ELSE <<"h", "e", "l", "v">>

\* PDFRebuilder._get_font
GetFont(original_font, is_bold, is_italic) ==
    LET font_lower == Without(Without(ToLower(original_font), " "), "-")
    IN  IF InFontMap(font_lower) THEN FontMapAt(font_lower)
        ELSE IF is_bold /\ is_italic THEN <<"h", "e", "b", "i">>
        ELSE IF is_bold THEN <<"h", "e", "b", "o">>
        ELSE IF is_italic THEN <<"h", "e", "i", "t">>
        ELSE <<"h", "e", "l", "v">>

Max(a, b) == IF a >= b THEN a ELSE b

\* size = size * scale with no floor under it
ShrunkSizeNoFloor(len, width, size) ==
    [num |-> 10000 * width, den |-> 1000 * WidthFactorTenths * len]

\* size = max(size * scale, size * self.config.min_font_scale), as a fraction
\* of a point: size * scale is 10 * width / (WidthFactorTenths * len)
ShrunkSize(len, width, size) ==
    [num |-> Max(10000 * width, size * MinFontScaleTenths * WidthFactorTenths * len),
     den |-> 1000 * WidthFactorTenths * len]

\* the size before rounding: estimated_width > available_width and
\* available_width > 0 decides whether it is shrunk
SizeBeforeRound(len, width, size) ==
    IF len * size * WidthFactorTenths > 1000 * width /\ width > 0
    THEN ShrunkSize(len, width, size)
    ELSE [num |-> size, den |-> 100]

\* round(x, 1) in tenths, x = num/den >= 0: the nearest tenth, and either
\* neighbour when x lies halfway (there the float's last bit decides)
RoundTenths(x) ==
    LET t == (10 * x.num) \div x.den
        r == 10 * x.num - t * x.den
    IN  IF 2 * r < x.den THEN {t}
        ELSE IF 2 * r > x.den THEN {t + 1}
        ELSE {t, t + 1}

\* PDFRebuilder._calculate_font_size: the sizes it may return, in tenths
CalculateFontSize(len, width, original_size) ==
    RoundTenths(SizeBeforeRound(len, width, original_size))

\* the candidates tried from the smallest up
FitTextInRectAscending(len, width, max_size, min_size) ==
    LET sizes == <<min_size, 6, 8, 10, max_size>>
        fits(k) == len * sizes[k] * WidthFactorTenths <= 10 * (width - 4)
    IN  IF \E k \in 1..5 : fits(k)
        THEN sizes[CHOOSE k \in 1..5 : fits(k) /\ \A m \in 1..(k - 1) : ~fits(m)]
        ELSE min_size

\* PDFRebuilder._fit_text_in_rect: the first candidate size that fits, in points
FitTextInRect(len, width, max_size, min_size) ==
    LET sizes == <<max_size, 10, 8, 6, min_size>>
        fits(k) == len * sizes[k] * WidthFactorTenths <= 10 * (width - 4)
    IN  IF \E k \in 1..5 : fits(k)
        THEN sizes[CHOOSE k \in 1..5 : fits(k) /\ \A m \in 1..(k - 1) : ~fits(m)]
        ELSE min_size

\* PDFRebuilder._int_to_rgb, each channel in 255ths
IntToRgb(c) == <<(c \div 65536) % 256, (c \div 256) % 256, c % 256>>

\* BBox.width and BBox.height
Width(b) == b.x1 - b.x0

Height(b) == b.y1 - b.y0

---------------------------------------------------------------------------
(* PDFRebuilder._get_font on its own *)

\* font names as PDFs carry them: a family and what follows it
FontFamilies ==
    {<<"A", "r", "i", "a", "l">>, <<"A", "R", "I", "A", "L">>, <<"T", "i", "m", "e", "s">>,
     <<"H", "e", "l", "v", "e", "t", "i", "c", "a">>, <<"C", "o", "u", "r", "i", "e", "r">>,
     <<"I", "m", "p", "a", "c", "t">>, <<"F", "o", "o">>, << >>}

FontSuffixes ==
    {<< >>, <<"M", "T">>, <<"-", "B", "o", "l", "d">>, <<"-", "B", "o", "l", "d", "M", "T">>,
     <<" ", "N", "e", "w">>, <<"-", "R", "o", "m", "a", "n">>,
     <<" ", "N", "e", "w", " ", "R", "o", "m", "a", "n">>}

FontIdle ==
    /\ nName = << >>
    /\ nBold = FALSE
    /\ nItalic = FALSE
    /\ nFont = << >>
    /\ nPc = "idle"

\* the names a span may carry: a family with a suffix, or a key of FONT_MAP
\* as it is written
FontNames ==
    {f \o x : f \in FontFamilies, x \in FontSuffixes}
        \cup {FontMap[k][1] : k \in 1..Len(FontMap)}

FontStart ==
    /\ nName \in FontNames
    /\ nBold \in BOOLEAN
    /\ nItalic \in BOOLEAN
    /\ nFont = << >>
    /\ nPc = "ready"

\* font_name = self._get_font(span.font, span.is_bold, span.is_italic)
FontResolve ==
    /\ nPc = "ready"
    /\ nFont' = GetFont(nName, nBold, nItalic)
    /\ nPc' = "resolved"
    /\ UNCHANGED <<nName, nBold, nItalic>>
    /\ UNCHANGED notFont

FontNext == FontResolve

---------------------------------------------------------------------------
(* PDFRebuilder._calculate_font_size on its own *)

\* longest translated text, in characters
MaxFitLen == 6

\* widest box, in points
MaxFitWidth == 12

\* original sizes, in hundredths of a point
FitSizes == {850, 1000, 1004, 1200}

FitIdle ==
    /\ fLen = 0
    /\ fWidth = 0
    /\ fSize = 0
    /\ fResult = 0
    /\ fPc = "idle"

FitStart ==
    /\ fLen \in 0..MaxFitLen
    /\ fWidth \in 0..MaxFitWidth
    /\ fSize \in FitSizes
    /\ fResult = 0
    /\ fPc = "ready"

\* font_size = self._calculate_font_size(span.translated_text, span.bbox, span.size, ...)
FitCalculate ==
    /\ fPc = "ready"
    /\ fResult' \in CalculateFontSize(fLen, fWidth, fSize)
    /\ fPc' = "sized"
    /\ UNCHANGED <<fLen, fWidth, fSize>>
    /\ UNCHANGED notFit

FitNext == FitCalculate

---------------------------------------------------------------------------
(* PDFRebuilder._fit_text_in_rect as _replace_cell calls it *)

CellFitStart ==
    /\ fLen \in 0..MaxFitLen
    /\ fWidth \in 0..MaxFitWidth
    /\ fSize = 0
    /\ fResult = 0
    /\ fPc = "cell ready"

\* font_size = self._fit_text_in_rect(cell.translated_text, cell.bbox, max_size=10)
CellFitCalculate ==
    /\ fPc = "cell ready"
    /\ fResult' = 10 * FitTextInRect(fLen, fWidth, 10, 4)
    /\ fPc' = "cell sized"
    /\ UNCHANGED <<fLen, fWidth, fSize>>
    /\ UNCHANGED notFit

CellFitNext == CellFitCalculate

---------------------------------------------------------------------------
(* PDFRebuilder.rebuild: pages in order, on each page the runs to replace    *)
(* and then the cells to replace. ops is what was asked of the PDF page, in  *)
(* order: cover rectangles and text draws, each draw with its outcome.       *)

\* a unit of a page: <<"span", block, line, span>> or <<"cell", table, cell>>
UnitAt(page, u) ==
    IF u[1] = "span" THEN page.text_blocks[u[2]].lines[u[3]].spans[u[4]]
    ELSE page.tables[u[2]].cells[u[3]]

\* every span of the page, block by block and line by line
AllSpans(page) ==
    Concat([b \in 1..Len(page.text_blocks) |->
        Concat([l \in 1..Len(page.text_blocks[b].lines) |->
            [k \in 1..Len(page.text_blocks[b].lines[l].spans) |-> <<"span", b, l, k>>]])])

\* every cell of the page, table by table
AllCells(page) ==
    Concat([t \in 1..Len(page.tables) |->
        [c \in 1..Len(page.tables[t].cells) |-> <<"cell", t, c>>]])

\* span.translated_text and span.translated_text != span.text: None and ""
\* are both false
ShouldReplace(unit) ==
    /\ unit.translated_text # None
    /\ unit.translated_text[1] # << >>
    /\ unit.translated_text[1] # unit.text

SpansToProcess(page) ==
    SelectSeq(AllSpans(page), LAMBDA u : ShouldReplace(UnitAt(page, u)))

CellsToProcess(page) ==
    SelectSeq(AllCells(page), LAMBDA u : ShouldReplace(UnitAt(page, u)))

\* shape.draw_rect(rect); shape.finish(color=None, fill=cover_color); shape.commit()
CoverOp(u, rect) ==
    [op |-> "cover", page |-> pageNum, unit |-> u, rect |-> rect, fill |-> <<1, 1, 1>>]

\* fitz_page.insert_text(point, text, fontname=, fontsize=, color=) and
\* whether it returned (ok) or raised; fontsize in tenths of a point
TextOp(u, attempt, point, text, fontname, fontsize, color, ok) ==
    [op |-> "text", page |-> pageNum, unit |-> u, attempt |-> attempt,
     point |-> point, text |-> text, fontname |-> fontname,
     fontsize |-> fontsize, color |-> color, ok |-> ok]

\* one draw and no handler around it
SpanDrawsNoRetry(u, point, text, fontname, fontsize, color, ok1, ok2) ==
    [ops |-> <<TextOp(u, 1, point, text, fontname, fontsize, color, ok1)>>,
     escaped |-> ~ok1]

\* _replace_span's try / except Exception: try / except Exception: pass
SpanDraws(u, point, text, fontname, fontsize, color, ok1, ok2) ==
    IF ok1
    THEN [ops |-> <<TextOp(u, 1, point, text, fontname, fontsize, color, TRUE)>>,
          escaped |-> FALSE]
    ELSE [ops |-> <<TextOp(u, 1, point, text, fontname, fontsize, color, FALSE),
                    TextOp(u, 2, point, text, FallbackFont, fontsize, color, ok2)>>,
          escaped |-> FALSE]

\* _replace_cell's try / except Exception: pass
CellDraws(u, point, text, fontsize, ok) ==
    [ops |-> <<TextOp(u, 1, point, text, FallbackFont, fontsize, <<0, 0, 0>>, ok)>>,
     escaped |-> FALSE]

RebuildIdle ==
    /\ pdfLen = 0
    /\ pageNum = 0
    /\ todoSpans = << >>
    /\ todoCells = << >>
    /\ ops = << >>
    /\ rExc = None
    /\ rPc = "idle"

\* pdf = fitz.open(original_pdf): the PDF has the document's pages, or one less
StartRebuild ==
    /\ dPc \in {"edit", "translated"}
    /\ rPc = "idle"
    /\ \E n \in {Len(document.pages), Max(Len(document.pages) - 1, 0)} : pdfLen' = n
    /\ pageNum' = 0
    /\ rPc' = "page"
    /\ dPc' = "rebuild"
    /\ UNCHANGED <<document, asDict, copy, persisted, loaded>>
    /\ UNCHANGED <<todoSpans, todoCells, ops, rExc>>
    /\ UNCHANGED notRebuild

\* the loop of rebuild reaches a page, and _rebuild_page_with_progress
\* collects its units; with none to replace it returns at once
BeginPage ==
    /\ rPc = "page"
    /\ pageNum < Len(document.pages)
    /\ pageNum < pdfLen
    /\ LET page_data == document.pages[pageNum + 1]
           spans_to_process == SpansToProcess(page_data)
           cells_to_process == CellsToProcess(page_data)
       IN  IF Len(spans_to_process) + Len(cells_to_process) = 0
           THEN /\ pageNum' = pageNum + 1
                /\ UNCHANGED <<todoSpans, todoCells, rPc>>
           ELSE /\ todoSpans' = spans_to_process
                /\ todoCells' = cells_to_process
                /\ rPc' = "units"
                /\ UNCHANGED pageNum
    /\ UNCHANGED <<pdfLen, ops, rExc>>
    /\ UNCHANGED docVars
    /\ UNCHANGED notRebuild

\* after a unit: the next unit of the page, or the next page; an exception
\* that left the unit ends rebuild
AfterUnit(drawn, spans, cells) ==
    IF drawn.escaped
    THEN /\ rExc' = Some("Exception")
         /\ rPc' = "raised"
         /\ UNCHANGED <<todoSpans, todoCells, pageNum>>
    ELSE /\ todoSpans' = spans
         /\ todoCells' = cells
         /\ rExc' = rExc
         /\ IF spans = << >> /\ cells = << >>
            THEN pageNum' = pageNum + 1 /\ rPc' = "page"
            ELSE UNCHANGED <<pageNum, rPc>>

\* the box itself as the rectangle
SpanCoverRectNoMargin(bbox) ==
    [x0 |-> bbox.x0, y0 |-> bbox.y0, x1 |-> bbox.x1, y1 |-> bbox.y1]

\* rect = fitz.Rect(x0 - cover_margin, y0 - cover_margin, x1 + cover_margin,
\* y1 + cover_margin)
SpanCoverRect(bbox) ==
    [x0 |-> bbox.x0 - CoverMargin, y0 |-> bbox.y0 - CoverMargin,
     x1 |-> bbox.x1 + CoverMargin, y1 |-> bbox.y1 + CoverMargin]

\* self._replace_span(fitz_page, span) for the next span of the page
ReplaceSpan ==
    /\ rPc = "units"
    /\ todoSpans # << >>
    /\ LET u == Head(todoSpans)
           span == UnitAt(document.pages[pageNum + 1], u)
           rect == SpanCoverRect(span.bbox)
           font_name == GetFont(span.font, HasFlag(span.flags, FlagBold),
                                HasFlag(span.flags, FlagItalic))
           color == IntToRgb(span.color)
           text_point == [x |-> span.bbox.x0, y |-> [num |-> span.bbox.y1 - 1, den |-> 1]]
       IN  \E font_size \in CalculateFontSize(Len(span.translated_text[1]),
                                              Width(span.bbox), span.size),
              ok1 \in BOOLEAN, ok2 \in BOOLEAN :
              LET drawn == SpanDraws(u, text_point, span.translated_text[1], font_name,
                                     font_size, color, ok1, ok2)
              IN  /\ ops' = ops \o <<CoverOp(u, rect)>> \o drawn.ops
                  /\ AfterUnit(drawn, Tail(todoSpans), todoCells)
    /\ UNCHANGED pdfLen
    /\ UNCHANGED docVars
    /\ UNCHANGED notRebuild

\* self._replace_cell(fitz_page, cell) for the next cell, the spans being done
ReplaceCell ==
    /\ rPc = "units"
    /\ todoSpans = << >>
    /\ todoCells # << >>
    /\ LET u == Head(todoCells)
           cell == UnitAt(document.pages[pageNum + 1], u)
           rect == [x0 |-> cell.bbox.x0 + 1, y0 |-> cell.bbox.y0 + 1,
                    x1 |-> cell.bbox.x1 - 1, y1 |-> cell.bbox.y1 - 1]
           font_size == FitTextInRect(Len(cell.translated_text[1]), Width(cell.bbox), 10, 4)
           text_point == [x |-> cell.bbox.x0 + 2,
                          y |-> [num |-> 6 * cell.bbox.y0 + 3 * Height(cell.bbox)
                                         + 2 * font_size,
                                 den |-> 6]]
       IN  \E ok \in BOOLEAN :
              LET drawn == CellDraws(u, text_point, cell.translated_text[1],
                                     10 * font_size, ok)
              IN  /\ ops' = ops \o <<CoverOp(u, rect)>> \o drawn.ops
                  /\ AfterUnit(drawn, todoSpans, Tail(todoCells))
    /\ UNCHANGED pdfLen
    /\ UNCHANGED docVars
    /\ UNCHANGED notRebuild

\* the loop ends (pages exhausted, or page_num >= len(pdf)): pdf.save(output_path)
FinishRebuild ==
    /\ rPc = "page"
    /\ pageNum >= Len(document.pages) \/ pageNum >= pdfLen
    /\ rPc' = "done"
    /\ UNCHANGED <<pdfLen, pageNum, todoSpans, todoCells, ops, rExc>>
    /\ UNCHANGED docVars
    /\ UNCHANGED notRebuild

RebuildNext ==
    \/ AddPage \/ AddTextBlock \/ AddTable
    \/ StartRebuild \/ BeginPage \/ ReplaceSpan \/ ReplaceCell \/ FinishRebuild

---------------------------------------------------------------------------
(* DocumentTranslator.translate_document: page by page, the runs of the      *)
(* page and then (when enabled) the cells of its tables.  The document is    *)
(* one as extraction leaves it: no unit has a translated_text yet.           *)

\* the texts of the runs of the k-th unit added to a document when it is a
\* block: a letter of its own, a blank, or a blank before a text
RunTexts(k) ==
    {<<<<CellLetters[k]>>>>, <<<<" ">>>>, <<<<" ">>, <<CellLetters[k], "x">>>>}

\* and of its cells when it is a table: a blank, or a text before a blank
CellTexts(k) == {<<<<" ">>>>, <<<<CellLetters[k]>>, <<" ">>>>}

\* a block of one line whose spans carry the texts
BlockOf(ts) ==
    [SampleBlock(None) EXCEPT !.lines[1].spans =
        [k \in 1..Len(ts) |-> [@[1] EXCEPT !.text = ts[k]]]]

\* a table of one row whose cells carry the texts, a blank one stripped to ""
TableOf(ts) ==
    [cls |-> "Table", bbox |-> SampleBox, rows |-> 1, cols |-> Len(ts),
     cells |-> [k \in 1..Len(ts) |->
                  [SampleCell(None) EXCEPT !.text = Strip(ts[k]), !.col = k - 1]]]

\* page.text_blocks.append(text_block), the block as extracted, on the page
\* being extracted
AddRuns ==
    /\ dPc = "edit"
    /\ NodeCount(document) < MaxNodes
    /\ document.pages # << >>
    /\ \E ts \in RunTexts(NodeCount(document) + 1) :
          LET p == Len(document.pages)
          IN  document' = PageWith(document, p, "text_blocks",
                                   Append(document.pages[p].text_blocks, BlockOf(ts)))
    /\ UNCHANGED <<asDict, copy, persisted, loaded, dPc>>
    /\ UNCHANGED notDoc

\* a converted table joins the tables of the last page
AddCells ==
    /\ dPc = "edit"
    /\ NodeCount(document) < MaxNodes
    /\ document.pages # << >>
    /\ \E ts \in CellTexts(NodeCount(document) + 1) :
          LET p == Len(document.pages)
          IN  document' = PageWith(document, p, "tables",
                                   Append(document.pages[p].tables, TableOf(ts)))
    /\ UNCHANGED <<asDict, copy, persisted, loaded, dPc>>
    /\ UNCHANGED notDoc

\* if span.text and span.text.strip()
HasText(unit) == unit.text # << >> /\ ~IsBlank(unit.text)

\* translator.translate_batch(batch): DummyTranslator gives one result per
\* text; a translator of kind "short" gives one result too few
TranslatorBatch(k, batch) ==
    LET full == [i \in 1..Len(batch) |-> DummyTranslate(batch[i])]
    IN  IF k = "short" /\ batch # << >> THEN SubSeq(full, 1, Len(batch) - 1) ELSE full

\* for i in range(0, len(texts), batch_size): translated.extend(...)
RECURSIVE TranslateFrom(_, _, _, _)
TranslateFrom(k, ts, i, size) ==
    IF i >= Len(ts) THEN << >>
    ELSE TranslatorBatch(k, ChunkOf(ts, i, size)) \o TranslateFrom(k, ts, i + size, size)

\* the assignment reaching the unit's text as well
SetTranslatedAndText(page, u, trans) ==
    IF u[1] = "span"
    THEN [page EXCEPT !.text_blocks[u[2]].lines[u[3]].spans[u[4]].translated_text =
                         Some(trans),
                      !.text_blocks[u[2]].lines[u[3]].spans[u[4]].text = trans]
    ELSE [page EXCEPT !.tables[u[2]].cells[u[3]].translated_text = Some(trans),
                      !.tables[u[2]].cells[u[3]].text = trans]

\* unit.translated_text = trans for the unit at path u
SetTranslated(page, u, trans) ==
    IF u[1] = "span"
    THEN [page EXCEPT !.text_blocks[u[2]].lines[u[3]].spans[u[4]].translated_text =
                         Some(trans)]
    ELSE [page EXCEPT !.tables[u[2]].cells[u[3]].translated_text = Some(trans)]

\* for unit, trans in zip(units, translated): unit.translated_text = trans
RECURSIVE AssignZip(_, _, _)
AssignZip(page, units, trans) ==
    IF units = << >> \/ trans = << >> THEN page
    ELSE AssignZip(SetTranslated(page, Head(units), Head(trans)), Tail(units), Tail(trans))

\* every unit taken, with or without text
TranslateUnitsNoFilter(page, all, k, size) ==
    LET unit_texts == [i \in 1..Len(all) |-> UnitAt(page, all[i]).text]
    IN  IF all = << >> THEN page
        ELSE AssignZip(page, all, TranslateFrom(k, unit_texts, 0, size))

\* _translate_page_with_progress and _translate_tables_with_progress: the
\* units of all that have text, their texts translated in batches, assigned
TranslateUnits(page, all, k, size) ==
    LET units == SelectSeq(all, LAMBDA u : HasText(UnitAt(page, u)))
        unit_texts == [i \in 1..Len(units) |-> UnitAt(page, units[i]).text]
    IN  IF units = << >> THEN page
        ELSE AssignZip(page, units, TranslateFrom(k, unit_texts, 0, size))

\* the calls logged with the pages counted from the last one
CallsOfBackwards(page, all, page_num, unit_kind, size) ==
    LET n == Len(SelectSeq(all, LAMBDA u : HasText(UnitAt(page, u))))
    IN  [c \in 1..((n + size - 1) \div size) |->
            [page |-> 0 - page_num, unit |-> unit_kind, i |-> (c - 1) * size]]

\* the backend calls one batch loop makes for the units of kind unit_kind on
\* page page_num: for i in range(0, len(texts), batch_size), none when no
\* unit has text
CallsOf(page, all, page_num, unit_kind, size) ==
    LET n == Len(SelectSeq(all, LAMBDA u : HasText(UnitAt(page, u))))
    IN  [c \in 1..((n + size - 1) \div size) |->
            [page |-> page_num, unit |-> unit_kind, i |-> (c - 1) * size]]

TranslateIdle ==
    /\ tKind = "none"
    /\ tTables = FALSE
    /\ tPage = 0
    /\ tCalls = << >>

\* translate_document(document, translate_tables) is called, by
\* translate_document_simple (which first sets the languages) or directly
StartTranslate ==
    /\ dPc \in {"edit", "merged"}
    /\ tKind' \in {"dummy", "short"}
    /\ tTables' \in BOOLEAN
    /\ tPage' = 0
    /\ tCalls' = << >>
    /\ \E simple \in BOOLEAN :
          document' = IF simple
                      THEN [document EXCEPT !.source_lang = Some(<<"e", "s">>),
                                            !.target_lang = Some(<<"e", "n">>)]
                      ELSE document
    /\ dPc' = IF document.pages = << >> THEN "translated" ELSE "translate"
    /\ UNCHANGED <<asDict, copy, persisted, loaded>>
    /\ UNCHANGED rebuildVars
    /\ UNCHANGED notTranslate

\* one turn of the loop over document.pages
TranslatePage ==
    /\ dPc = "translate"
    /\ \E size \in 1..MaxBatch :
          LET page == document.pages[tPage + 1]
              runs_done == TranslateUnits(page, AllSpans(page), tKind, size)
              cells_done == IF tTables
                            THEN TranslateUnits(runs_done, AllCells(runs_done), tKind, size)
                            ELSE runs_done
          IN  /\ document' = [document EXCEPT !.pages[tPage + 1] = cells_done]
              /\ tCalls' = tCalls \o CallsOf(page, AllSpans(page), tPage, "run", size)
                               \o IF tTables
                                  THEN CallsOf(page, AllCells(page), tPage, "cell", size)
                                  ELSE << >>
    /\ tPage' = tPage + 1
    /\ dPc' = IF tPage + 1 = Len(document.pages) THEN "translated" ELSE "translate"
    /\ UNCHANGED <<tKind, tTables>>
    /\ UNCHANGED <<asDict, copy, persisted, loaded>>
    /\ UNCHANGED rebuildVars
    /\ UNCHANGED notTranslate

---------------------------------------------------------------------------
(* TableExtractor.enrich_document: the tables found on each page of the PDF  *)
(* are attached to the page of the document with the same index             *)

\* the tables extraction finds on one page: none, or one of two cells
PageTables == {<< >>, <<TableOf(<<<<"T">>, <<" ">>>>)>>}

EnrichIdle ==
    /\ all_tables = << >>
    /\ docBefore = None

\* the loop of enrich_document from page_idx on, each list extending the
\* page's tables
RECURSIVE EnrichExtendFrom(_, _, _)
EnrichExtendFrom(doc, tables, page_idx) ==
    IF page_idx >= Len(tables) THEN doc
    ELSE IF page_idx < Len(doc.pages)
    THEN EnrichExtendFrom(PageWith(doc, page_idx + 1, "tables",
                                   doc.pages[page_idx + 1].tables \o tables[page_idx + 1]),
                          tables, page_idx + 1)
    ELSE EnrichExtendFrom(doc, tables, page_idx + 1)

\* the loop of enrich_document from page_idx on
RECURSIVE EnrichFrom(_, _, _)
EnrichFrom(doc, tables, page_idx) ==
    IF page_idx >= Len(tables) THEN doc
    ELSE IF page_idx < Len(doc.pages)
    THEN EnrichFrom(PageWith(doc, page_idx + 1, "tables", tables[page_idx + 1]),
                    tables, page_idx + 1)
    ELSE EnrichFrom(doc, tables, page_idx + 1)

\* document = table_extractor.enrich_document(document, pdf_path): the PDF
\* may have fewer or more pages than the document
EnrichDocument ==
    /\ dPc = "edit"
    /\ \E tables \in SeqsUpTo(PageTables, MaxPages + 1) :
          /\ all_tables' = tables
          /\ document' = EnrichFrom(document, tables, 0)
    /\ docBefore' = Some(document)
    /\ dPc' = "merged"
    /\ UNCHANGED <<asDict, copy, persisted, loaded>>
    /\ UNCHANGED notEnrich

EnrichNext == AddPage \/ AddRuns \/ AddImageBlock \/ AddCells \/ EnrichDocument

---------------------------------------------------------------------------
(* scripts/translate_demo.py, main: extract, enrich_document,                *)
(* translate_document_simple, rebuild_pdf_simple                             *)

\* one turn of the loop of PDFExtractor.extract: page = self._extract_page(...)
\* and pages.append(page), the page with no text block or with one
ExtractPage ==
    /\ dPc = "edit"
    /\ Len(document.pages) < MaxPages
    /\ \E blocks \in {<< >>} \cup {<<BlockOf(ts)>> : ts \in RunTexts(Len(document.pages) + 1)} :
          document' = [document EXCEPT !.pages =
                          Append(@, [cls |-> "Page", page_number |-> Len(@) + 1,
                                     width |-> 595, height |-> 842, text_blocks |-> blocks,
                                     image_blocks |-> << >>, tables |-> << >>])]
    /\ UNCHANGED <<asDict, copy, persisted, loaded, dPc>>
    /\ UNCHANGED notDoc

\* document = table_extractor.enrich_document(document, pdf_path), with the
\* PDF the document was extracted from: one list of tables for each page
MainEnrich ==
    /\ EnrichDocument
    /\ Len(all_tables') = Len(document.pages)

\* document = translate_document_simple(document, source_lang, target_lang):
\* the languages are set, the tables are translated too, and the translator
\* is one that returns a text for every text
MainTranslate ==
    /\ dPc = "merged"
    /\ StartTranslate
    /\ tKind' = "dummy"
    /\ tTables'
    /\ document'.source_lang # None

\* rebuild_pdf_simple(pdf_path, document, output_pdf), with the same PDF
MainRebuild ==
    /\ dPc = "translated"
    /\ StartRebuild
    /\ pdfLen' = Len(document.pages)

MainNext ==
    \/ ExtractPage \/ MainEnrich
    \/ MainTranslate \/ TranslatePage
    \/ MainRebuild \/ BeginPage \/ ReplaceSpan \/ ReplaceCell \/ FinishRebuild

\* extraction, translation and reconstruction, as translate_demo runs them
PipelineNext ==
    \/ AddPage \/ AddRuns \/ AddCells
    \/ StartTranslate \/ TranslatePage
    \/ StartRebuild \/ BeginPage \/ ReplaceSpan \/ ReplaceCell \/ FinishRebuild

---------------------------------------------------------------------------
(* A Document under mutation: units added and removed, translation, and a   *)
(* reload from a record whose stored counts were altered                     *)

\* document.pages.pop()
RemovePage ==
    /\ dPc = "edit"
    /\ document.pages # << >>
    /\ document' = [document EXCEPT !.pages = SubSeq(@, 1, Len(@) - 1)]
    /\ UNCHANGED <<asDict, copy, persisted, loaded, dPc>>
    /\ UNCHANGED notDoc

\* page.text_blocks.pop(), page.image_blocks.pop() or page.tables.pop()
RemoveNode ==
    /\ dPc = "edit"
    /\ \E p \in 1..Len(document.pages), f \in {"text_blocks", "image_blocks", "tables"} :
          /\ document.pages[p][f] # << >>
          /\ document' = PageWith(document, p, f,
                                  SubSeq(document.pages[p][f], 1,
                                         Len(document.pages[p][f]) - 1))
    /\ UNCHANGED <<asDict, copy, persisted, loaded, dPc>>
    /\ UNCHANGED notDoc

\* the record's stored counts are altered before it is read back
Tamper ==
    /\ dPc = "dict"
    /\ Item(asDict[1], "page_count").v = PageCount(document)
    /\ asDict' = Some(PyDict([asDict[1].v EXCEPT
                      !.page_count = PyNum(@.v + 7),
                      !.total_text_blocks = PyNum(@.v + 7),
                      !.total_image_blocks = PyNum(@.v + 7),
                      !.total_tables = PyNum(@.v + 7)]))
    /\ UNCHANGED <<document, copy, persisted, loaded, dPc>>
    /\ UNCHANGED notDoc

CountsNext ==
    \/ AddPage \/ AddRuns \/ AddImageBlock \/ AddCells \/ RemovePage \/ RemoveNode
    \/ StartTranslate \/ TranslatePage
    \/ ToDict \/ Tamper \/ FromDict

---------------------------------------------------------------------------
(* Properties of the document model *)

\* C1: a Document comes back field for field from to_dict / from_dict and
\* from to_json / from_json, whatever its pages hold.
RoundTripLaw ==
    /\ dPc = "copied" => copy = Some(document)
    /\ dPc = "loaded" => loaded = Some(document)

---------------------------------------------------------------------------
(* Properties of translate_batch *)

Returned == bPc \in {"returned", "done"}

\* every backend call so far returned one result per string it was given
BackendKeptContract ==
    \A c \in 1..Len(calls) : ~calls[c].raised /\ Len(calls[c].out) = Len(calls[c].batch)

\* every string handed to the backend, and every string it returned, in call order
AllSent == Concat([c \in 1..Len(calls) |-> calls[c].batch])

AllReceived == Concat([c \in 1..Len(calls) |-> calls[c].out])

NonBlankCount(ts) == Cardinality({i \in 1..Len(ts) : ~IsBlank(ts[i])})

\* the position in ts of its k-th non-blank entry
KthNonBlank(ts, k) ==
    CHOOSE i \in 1..Len(ts) :
        /\ ~IsBlank(ts[i])
        /\ Cardinality({j \in 1..i : ~IsBlank(ts[j])}) = k

\* C2: whatever the texts, the batch size, the translator and the number of
\* results the backend returns, translate_batch returns as many strings as
\* it was given.
BatchLengthPreserved == Returned => Len(results) = Len(texts)

\* C2 witness: the pattern-protecting batcher returned for a mix of blank and
\* non-blank texts after more than one backend call, one of them short.
BatchLengthWitness ==
    /\ Returned /\ kind = "nllb" /\ Len(calls) >= 2
    /\ \E i \in 1..Len(texts) : IsBlank(texts[i])
    /\ \E c \in 1..Len(calls) : Len(calls[c].out) < Len(calls[c].batch)
    /\ Len(results) = Len(texts)

\* C3: no empty or whitespace-only string is ever handed to the backend, and
\* the result at every blank position is the input string itself.
BlankNeverSent ==
    /\ \A c \in 1..Len(calls) : \A k \in 1..Len(calls[c].batch) :
          ~IsBlank(calls[c].batch[k])
    /\ Returned =>
          \A i \in 1..Len(texts) :
              IsBlank(texts[i]) => i \in DOMAIN results /\ results[i] = texts[i]

\* C3 witness: a call with an empty and a whitespace-only text next to a
\* non-blank one returned, after the backend was called.
BlankWitness ==
    /\ Returned /\ kind = "nllb" /\ Len(calls) >= 1
    /\ \E i, j \in 1..Len(texts) : texts[i] = << >> /\ texts[j] = <<" ">>
    /\ \E i \in 1..Len(texts) : ~IsBlank(texts[i]) /\ results[i] # texts[i]

\* C4: when the backend returns one result per string, the k-th non-blank
\* text was sent as its guarded form in k-th place, and the result at its
\* position is the k-th backend result with the text's own patterns restored.
ResultsInOrder ==
    (kind = "nllb" /\ Returned /\ BackendKeptContract) =>
        /\ Len(AllSent) = NonBlankCount(texts)
        /\ \A k \in 1..Len(AllSent) :
              LET i == KthNonBlank(texts, k)
                  p == ProtectPatterns(texts[i])
              IN  /\ AllSent[k] = p.clean
                  /\ results[i] = RestorePatterns(AllReceived[k], p.protected)

\* C4 witness: two different non-blank texts around a blank one went to the
\* backend in separate chunks and came back changed.
ResultsInOrderWitness ==
    /\ kind = "nllb" /\ Returned /\ BackendKeptContract /\ Len(calls) >= 2
    /\ Len(texts) = 3 /\ IsBlank(texts[2]) /\ ~IsBlank(texts[1]) /\ ~IsBlank(texts[3])
    /\ texts[1] # texts[3]
    /\ results[1] # texts[1] /\ results[3] # texts[3]

\* C7: when the backend raises for a chunk, the call ends with a
\* TranslationBackendError that carries the texts of the failing chunk, and
\* no translated_text is assigned.
BackendErrorSurfaced ==
    bPc = "raised" =>
        /\ exc = Some([type |-> "TranslationBackendError",
                       texts |-> Some(calls[Len(calls)].batch)])
        /\ \A k \in 1..Len(spanTranslated) : spanTranslated[k] = None

\* C22: when translate_batch of the pattern-protecting translator returns
\* for n non-blank texts and batch size B, the backend was called ceil(n/B)
\* times, every call received between 1 and B strings, and the strings of
\* the calls, in call order, are the guarded non-blank texts in input order.
BackendCallsPartition ==
    (kind = "nllb" /\ Returned) =>
        LET n == NonBlankCount(texts)
        IN  /\ Len(calls) = (n + batch_size - 1) \div batch_size
            /\ \A c \in 1..Len(calls) :
                  Len(calls[c].batch) >= 1 /\ Len(calls[c].batch) <= batch_size
            /\ AllSent = [k \in 1..n |->
                             ProtectPatterns(texts[KthNonBlank(texts, k)]).clean]

\* C22 witness: three non-blank texts, one of them with an amount to guard,
\* went to the backend in a call of two strings and a call of one.
BackendCallsWitness ==
    /\ kind = "nllb" /\ Returned
    /\ NonBlankCount(texts) = 3
    /\ batch_size = 2
    /\ Len(calls) = 2
    /\ Len(calls[1].batch) = 2 /\ Len(calls[2].batch) = 1
    /\ \E i \in 1..Len(texts) : texts[i] = <<"7", "€">>

---------------------------------------------------------------------------
(* Properties of the pattern guard *)

\* how many times old occurs in s
Occurrences(s, old) == Cardinality({p \in 1..Len(s) : OccursAt(s, old, p)})

\* the backend returned every placeholder of the guarded text
KeepsPlaceholders ==
    \A e \in 1..Len(gProtected) :
        Find(gClean, gProtected[e][1]) > 0 => Find(gTranslated, gProtected[e][1]) > 0

\* C5: for a non-blank text and a backend that returns every placeholder,
\* the restored output holds every protected token of the text, and restoring
\* the guarded text itself gives the text back.
GuardReproducesTokens ==
    (gPc = "restored" /\ ~IsBlank(gText) /\ KeepsPlaceholders) =>
        /\ \A e \in 1..Len(gProtected) : Find(gRestored, gProtected[e][2]) > 0
        /\ gTranslated = gClean => gRestored = gText

\* the same literal was protected more than once
RepeatedLiteral ==
    \E a, b \in 1..Len(gProtected) : a < b /\ gProtected[a][2] = gProtected[b][2]

\* C6: when a literal occurs more than once, the occurrences get distinct
\* placeholders, no placeholder occurs twice in the guarded text, and
\* restoring the guarded text puts every occurrence back.
GuardRepeatedLiterals ==
    (gPc \in {"protected", "translated", "restored"} /\ RepeatedLiteral) =>
        /\ \A a, b \in 1..Len(gProtected) :
              a # b => gProtected[a][1] # gProtected[b][1]
        /\ \A e \in 1..Len(gProtected) : Occurrences(gClean, gProtected[e][1]) <= 1
        /\ RestorePatterns(gClean, gProtected) = gText

---------------------------------------------------------------------------
(* Properties of the font fit *)

\* C8 as stated: the rounded size is never below original_size * min_font_scale
\* (both sides in thousandths of a point).
FontSizeAtLeastFloor ==
    fPc = "sized" => fResult * 100 >= MinFontScaleTenths * fSize

\* C8: the floor holds before rounding, so the rounded size is never more
\* than 0.05 below original_size * min_font_scale, and never below it when
\* the floor is a whole number of tenths (original size 10: never below 6.0).
FontSizeNearFloor ==
    fPc = "sized" =>
        /\ fResult * 100 >= MinFontScaleTenths * fSize - 50
        /\ (MinFontScaleTenths * fSize) % 100 = 0 =>
              fResult * 100 >= MinFontScaleTenths * fSize

\* C8 witness: a text too long for its box at size 10 was sized 6.0.
FontSizeWitness ==
    /\ fPc = "sized" /\ fSize = 1000 /\ fWidth > 0
    /\ fLen * fSize * WidthFactorTenths > 1000 * fWidth
    /\ 10000 * fWidth < fSize * MinFontScaleTenths * WidthFactorTenths * fLen
    /\ fResult = 60

---------------------------------------------------------------------------
(* Properties of the reconstruction *)

\* the positions of ops that act on unit u of page p (p counted from 0)
OpsOf(p, u) == {i \in 1..Len(ops) : ops[i].page = p /\ ops[i].unit = u}

\* a cover rectangle was painted and a text draw was attempted for the unit
CoveredAndRedrawn(p, u) ==
    /\ \E i \in OpsOf(p, u) : ops[i].op = "cover"
    /\ \E i \in OpsOf(p, u) : ops[i].op = "text"

\* the pages rebuild has gone through
PagesDone == 0..(pageNum - 1)

\* the units of ops that are covers of page p, in the order they were painted
RECURSIVE CoveredOn(_, _)
CoveredOn(p, i) ==
    IF i > Len(ops) THEN << >>
    ELSE IF ops[i].op = "cover" /\ ops[i].page = p
         THEN <<ops[i].unit>> \o CoveredOn(p, i + 1)
         ELSE CoveredOn(p, i + 1)

\* C9 as stated: on every page gone through, a run or a cell is covered and
\* redrawn exactly when its translated_text is set and differs from its text.
RedrawnIffSetAndDiffers ==
    rPc = "done" =>
        \A p \in PagesDone :
            LET page == document.pages[p + 1]
            IN  \A k \in 1..Len(AllSpans(page) \o AllCells(page)) :
                    LET u == (AllSpans(page) \o AllCells(page))[k]
                        unit == UnitAt(page, u)
                    IN  CoveredAndRedrawn(p, u) <=>
                            /\ unit.translated_text # None
                            /\ unit.translated_text[1] # unit.text

\* C10: rebuild never raises for a failed draw; a run's failed draw is
\* followed by exactly one more draw of the same text at the same point and
\* size in the fallback font, a cell is drawn once; and on every page gone
\* through every run and cell to replace was handled, in order.
RebuildBestEffort ==
    /\ rPc # "raised" /\ rExc = None
    /\ \A i \in 1..Len(ops) :
          ops[i].op = "text" =>
              LET same == {j \in OpsOf(ops[i].page, ops[i].unit) : ops[j].op = "text"}
              IN  IF ops[i].unit[1] = "span" /\ ops[i].attempt = 1 /\ ~ops[i].ok
                  THEN /\ same = {i, i + 1}
                       /\ i + 1 <= Len(ops)
                       /\ ops[i + 1].attempt = 2
                       /\ ops[i + 1].fontname = FallbackFont
                       /\ ops[i + 1].fontsize = ops[i].fontsize
                       /\ ops[i + 1].point = ops[i].point
                       /\ ops[i + 1].text = ops[i].text
                  ELSE \/ ops[i].attempt = 1 /\ same = {i}
                       \/ ops[i].attempt = 2 /\ same = {i - 1, i}
    /\ \A p \in PagesDone :
          CoveredOn(p, 1) = SpansToProcess(document.pages[p + 1])
                               \o CellsToProcess(document.pages[p + 1])

\* C10 witness: rebuild finished after both draws of a run failed, and a
\* later unit was still drawn.
RebuildBestEffortWitness ==
    /\ rPc = "done"
    /\ \E i \in 1..Len(ops), j \in 1..Len(ops) :
          /\ i < j
          /\ ops[i].op = "text" /\ ops[i].attempt = 2 /\ ~ops[i].ok
          /\ ops[j].op = "text" /\ ops[j].unit # ops[i].unit

\* every text draw attempted for unit u of page p raised
AllDrawsFailed(p, u) ==
    /\ \E i \in OpsOf(p, u) : ops[i].op = "text"
    /\ \A i \in OpsOf(p, u) : ops[i].op = "text" => ~ops[i].ok

\* C11 as stated: a unit whose draws all failed is left as it was on the
\* page: no cover rectangle was painted over it and no text was drawn for it.
OriginalVisibleOnFailure ==
    \A i \in 1..Len(ops) :
        AllDrawsFailed(ops[i].page, ops[i].unit) =>
            /\ ~\E j \in OpsOf(ops[i].page, ops[i].unit) : ops[j].op = "cover"
            /\ ~\E j \in OpsOf(ops[i].page, ops[i].unit) : ops[j].op = "text" /\ ops[j].ok

\* the positions of ops that act on a text run
SpanOps == {i \in 1..Len(ops) : ops[i].unit[1] = "span"}

\* the run an operation acts on
SpanOf(i) == UnitAt(document.pages[ops[i].page + 1], ops[i].unit)

\* C15: a redrawn run with box (x0,y0,x1,y1) is covered by
\* (x0-m, y0-m, x1+m, y1+m) and its text is drawn at (x0, y1-1); box
\* (0,0,40,10) gives cover (-2,-2,42,12) and anchor (0,9), and an unmapped
\* font without bold or italic bits is first drawn in helv.
CoverAndAnchor ==
    \A i \in SpanOps :
        LET b == SpanOf(i).bbox
        IN  /\ ops[i].op = "cover" =>
                  /\ ops[i].rect = [x0 |-> b.x0 - 2, y0 |-> b.y0 - 2,
                                    x1 |-> b.x1 + 2, y1 |-> b.y1 + 2]
                  /\ b = SampleBox =>
                        ops[i].rect = [x0 |-> -2, y0 |-> -2, x1 |-> 42, y1 |-> 12]
            /\ ops[i].op = "text" =>
                  /\ ops[i].point = [x |-> b.x0, y |-> [num |-> b.y1 - 1, den |-> 1]]
                  /\ b = SampleBox =>
                        ops[i].point = [x |-> 0, y |-> [num |-> 9, den |-> 1]]
                  /\ (/\ ops[i].attempt = 1
                      /\ SpanOf(i).font = <<"F", "o", "o">>
                      /\ SpanOf(i).flags = 0) => ops[i].fontname = <<"h", "e", "l", "v">>

\* C15 witness: a run in font Foo without style bits and with box
\* (0,0,40,10) was covered and drawn, and another with box (10,20,30,32).
CoverAndAnchorWitness ==
    /\ \E i \in SpanOps, j \in SpanOps :
          /\ ops[i].op = "cover" /\ ops[j].op = "text" /\ ops[j].unit = ops[i].unit
          /\ ops[j].page = ops[i].page
          /\ SpanOf(i).bbox = SampleBox /\ SpanOf(i).flags = 0
    /\ \E i \in SpanOps : ops[i].op = "cover" /\ SpanOf(i).bbox.x0 = 10

---------------------------------------------------------------------------
(* Properties of the font substitution *)

\* the name lowercased, its spaces and hyphens removed
NormalizedName(name) == SelectSeq(ToLower(name), LAMBDA c : c \notin {" ", "-"})

\* the substitute by style bits alone
ByStyleBits(bold, italic) ==
    CASE bold /\ italic -> <<"h", "e", "b", "i">>
      [] bold /\ ~italic -> <<"h", "e", "b", "o">>
      [] ~bold /\ italic -> <<"h", "e", "i", "t">>
      [] OTHER -> <<"h", "e", "l", "v">>

\* C12: the substitute font is the table's entry for the normalized name
\* when the table has one, and otherwise the one its style bits give.
FontSubstitute ==
    nPc = "resolved" =>
        LET hits == {k \in 1..Len(FontMap) : FontMap[k][1] = NormalizedName(nName)}
        IN  IF hits # {} THEN \A k \in hits : nFont = FontMap[k][2]
            ELSE nFont = ByStyleBits(nBold, nItalic)

\* C12 witness: "Times New Roman" in bold resolved through the table, to tiro.
FontSubstituteWitness ==
    /\ nPc = "resolved"
    /\ nName = <<"T", "i", "m", "e", "s", " ", "N", "e", "w", " ", "R", "o", "m", "a", "n">>
    /\ nBold
    /\ nFont = <<"t", "i", "r", "o">>

\* C26: every entry of the family-name table is reachable: a font whose name
\* is a key of FONT_MAP, hyphenated or not, resolves to that key's entry
\* whatever its style bits are.
FontMapReachable ==
    (nPc = "resolved" /\ InFontMap(nName)) => nFont = FontMapAt(nName)

---------------------------------------------------------------------------
(* Properties of the cell fit *)

\* the largest size of candidates whose estimated width len * size * 0.5 is
\* at most width - 4, and 4 when none fits; in tenths of a point
LargestFitting(candidates, len, width) ==
    LET fitting == {c \in candidates : len * c * 5 <= 10 * (width - 4)}
    IN  IF fitting = {} THEN 40
        ELSE 10 * (CHOOSE c \in fitting : \A d \in fitting : d <= c)

\* C13 as stated: a redrawn cell gets the largest fitting size of 12, 10, 8, 6, 4.
CellSizeFromTwelve ==
    fPc = "cell sized" => fResult = LargestFitting({12, 10, 8, 6, 4}, fLen, fWidth)

\* C13: a redrawn cell gets the largest size of 10, 8, 6, 4 whose estimated
\* width fits the cell's inner width, and 4 when none fits.
CellSizeFromTen ==
    fPc = "cell sized" => fResult = LargestFitting({10, 8, 6, 4}, fLen, fWidth)

\* C13 witness: two characters in a cell 12 wide were sized 8.
CellSizeWitness ==
    fPc = "cell sized" /\ fLen = 2 /\ fWidth = 12 /\ fResult = 80

---------------------------------------------------------------------------
(* Properties of the matrix projection *)

\* the cells of the table that sit at row r and column c, counted from 0
CellsAt(t, r, c) == {k \in 1..Len(t.cells) : t.cells[k].row = r /\ t.cells[k].col = c}

\* C14 as stated: to_matrix returns rows lists of cols strings, position
\* (r,c) holding the text of a cell at (r,c) and "" where no cell sits; a cell
\* whose row or col is outside 0..rows-1 / 0..cols-1 changes nothing.
MatrixProjection ==
    mPc = "done" =>
        /\ matrix[1].exc = None
        /\ Len(matrix[1].value) = table.rows
        /\ \A r \in 1..table.rows :
              /\ Len(matrix[1].value[r]) = table.cols
              /\ \A c \in 1..table.cols :
                    IF CellsAt(table, r - 1, c - 1) = {}
                    THEN matrix[1].value[r][c] = << >>
                    ELSE \E k \in CellsAt(table, r - 1, c - 1) :
                            matrix[1].value[r][c] = table.cells[k].text

\* every cell of the table sits inside its grid
CellsInGrid(t) ==
    \A k \in 1..Len(t.cells) :
        /\ t.cells[k].row \in 0..(t.rows - 1)
        /\ t.cells[k].col \in 0..(t.cols - 1)

\* C25: when cells of a table claim the same (row, col), both read paths
\* give the same cell: in a table whose cells all sit inside the grid, at
\* every position where get_cell finds a cell, to_matrix holds the text of
\* the cell get_cell returns.
CellReadsAgree ==
    ( /\ mPc = "done"
      /\ found # None
      /\ CellsInGrid(table) )
        => ( found[1].cell # None
               => /\ matrix[1].exc = None
                  /\ matrix[1].value[found[1].row + 1][found[1].col + 1]
                         = found[1].cell[1].text )

---------------------------------------------------------------------------
(* Properties of the table conversion *)

\* a equals the fraction n / d
FractionIs(a, n, d) == a.num * d = n * a.den

\* C16: a grid of R >= 1 rows whose longest row has C >= 1 entries becomes
\* one Table with rows = R and cols = C, one cell per grid entry at its
\* zero-based (row, col), every row < R and col < C, the box of cell (r,c)
\* being x0 + c*W/C .. x0 + (c+1)*W/C by y0 + r*H/R .. y0 + (r+1)*H/R.
TableConversion ==
    (cPc = "converted" /\ Len(grid) >= 1 /\ \E r \in 1..Len(grid) : Len(grid[r]) >= 1) =>
        /\ converted # None
        /\ LET t == converted[1]
               R == Len(grid)
               C == CHOOSE n \in 1..MaxDim + 1 :
                        /\ \E r \in 1..R : Len(grid[r]) = n
                        /\ \A r \in 1..R : Len(grid[r]) <= n
               W == tableBox.x1 - tableBox.x0
               H == tableBox.y1 - tableBox.y0
           IN  /\ t.rows = R /\ t.cols = C /\ t.bbox = tableBox
               /\ \A r \in 1..R : \A c \in 1..Len(grid[r]) :
                     Cardinality(CellsAt(t, r - 1, c - 1)) = 1
               /\ \A k \in 1..Len(t.cells) :
                     LET cell == t.cells[k]
                     IN  /\ cell.row \in 0..(R - 1)
                         /\ cell.col \in 0..(C - 1)
                         /\ cell.col < Len(grid[cell.row + 1])
                         /\ FractionIs(cell.bbox.x0, tableBox.x0 * C + cell.col * W, C)
                         /\ FractionIs(cell.bbox.x1, tableBox.x0 * C + (cell.col + 1) * W, C)
                         /\ FractionIs(cell.bbox.y0, tableBox.y0 * R + cell.row * H, R)
                         /\ FractionIs(cell.bbox.y1, tableBox.y0 * R + (cell.row + 1) * H, R)

\* C16 witness: a grid of two rows of one entry each, in the box
\* (10,20,31,33), became a Table of 2 rows and 1 column with cells (0,0)
\* and (1,0).
TableConversionWitness ==
    /\ cPc = "converted"
    /\ Len(grid) = 2 /\ Len(grid[1]) = 1 /\ Len(grid[2]) = 1
    /\ tableBox # SampleBox
    /\ converted # None
    /\ converted[1].rows = 2 /\ converted[1].cols = 1
    /\ Len(converted[1].cells) = 2
    /\ converted[1].cells[1].row = 0 /\ converted[1].cells[1].col = 0
    /\ converted[1].cells[2].row = 1 /\ converted[1].cells[2].col = 0

---------------------------------------------------------------------------
(* Properties of translation and reconstruction together *)

\* the document with every translated_text and both language tags taken out
Erased(doc) ==
    [doc EXCEPT
       !.source_lang = None,
       !.target_lang = None,
       !.pages = [p \in 1..Len(@) |->
          [@[p] EXCEPT
             !.text_blocks = [b \in 1..Len(@) |->
                [@[b] EXCEPT !.lines = [l \in 1..Len(@) |->
                   [@[l] EXCEPT !.spans = [k \in 1..Len(@) |->
                      [@[k] EXCEPT !.translated_text = None]]]]]],
             !.tables = [t \in 1..Len(@) |->
                [@[t] EXCEPT !.cells = [c \in 1..Len(@) |->
                   [@[c] EXCEPT !.translated_text = None]]]]]]]

\* C17: no step of translation or reconstruction changes anything of the
\* document but the translated_text of runs and cells and the language
\* tags: texts, boxes, fonts, sizes, colors, flags, rows, cols and the number
\* and order of pages, blocks, lines, runs, tables and cells stay.
OnlyTranslatedTextChanges ==
    [][dPc' # "edit" => Erased(document') = Erased(document)]_vars

\* C17 witness: a document was translated through translate_document_simple
\* and rebuilt, with a translated run or cell drawn.
OnlyTranslatedTextChangesWitness ==
    /\ rPc = "done"
    /\ tKind # "none"
    /\ document.source_lang # None
    /\ ops # << >>
    /\ Erased(document) # document

\* some character of the text is not whitespace
NonBlank(text) == \E k \in 1..Len(text) : text[k] \notin Whitespace

\* C19: after translate_document with a translator that returns one result
\* per input, every run, and every cell when tables are translated, whose
\* text is non-blank has the translator's result for its own text as
\* translated_text, and every blank or empty run or cell has none.
EveryUnitTranslated ==
    (dPc = "translated" /\ tKind = "dummy") =>
        \A p \in 1..Len(document.pages) :
            LET page == document.pages[p]
                units == AllSpans(page) \o (IF tTables THEN AllCells(page) ELSE << >>)
            IN  \A i \in 1..Len(units) :
                    LET unit == UnitAt(page, units[i])
                    IN  IF NonBlank(unit.text)
                        THEN unit.translated_text = Some(DummyPrefix \o unit.text)
                        ELSE unit.translated_text = None

\* C19 witness: a page holds a blank run left alone before a run that was
\* translated, and another unit of the document is an empty cell left alone
\* beside a translated cell.
EveryUnitTranslatedWitness ==
    /\ dPc = "translated" /\ tKind = "dummy" /\ tTables
    /\ \E p \in 1..Len(document.pages) :
          \E b \in 1..Len(document.pages[p].text_blocks) :
             LET spans == document.pages[p].text_blocks[b].lines[1].spans
             IN  /\ Len(spans) = 2
                 /\ ~NonBlank(spans[1].text) /\ spans[1].translated_text = None
                 /\ spans[2].translated_text = Some(DummyPrefix \o spans[2].text)
    /\ \E p \in 1..Len(document.pages) :
          \E t \in 1..Len(document.pages[p].tables) :
             LET cells == document.pages[p].tables[t].cells
             IN  /\ Len(cells) = 2
                 /\ cells[1].translated_text = Some(DummyPrefix \o cells[1].text)
                 /\ cells[2].text = << >> /\ cells[2].translated_text = None

---------------------------------------------------------------------------
(* Properties of the derived counts *)

\* the units of one kind in the document, each named by its page and place
UnitsOfKind(doc, f) ==
    {<<p, k>> : p \in DOMAIN doc.pages, k \in 1..MaxNodes + 1}
        \cap {pk \in (DOMAIN doc.pages) \X (1..MaxNodes + 1) :
                 pk[2] <= Len(doc.pages[pk[1]][f])}

\* the four counts of doc are those of its pages as they are now
CountsCurrent(doc) ==
    /\ PageCount(doc) = Cardinality(DOMAIN doc.pages)
    /\ TotalTextBlocks(doc) = Cardinality(UnitsOfKind(doc, "text_blocks"))
    /\ TotalImageBlocks(doc) = Cardinality(UnitsOfKind(doc, "image_blocks"))
    /\ TotalTables(doc) = Cardinality(UnitsOfKind(doc, "tables"))

\* C18: whatever was added, removed or translated, and whatever counts the
\* record it was loaded from stored, a Document's page_count is its number
\* of pages and its three totals are the sums over its pages.
CountsNeverStale ==
    /\ CountsCurrent(document)
    /\ copy # None =>
          /\ CountsCurrent(copy[1])
          /\ PageCount(copy[1]) = PageCount(document)
          /\ TotalTextBlocks(copy[1]) = TotalTextBlocks(document)
          /\ TotalImageBlocks(copy[1]) = TotalImageBlocks(document)
          /\ TotalTables(copy[1]) = TotalTables(document)

\* C18 witness: a document of a page with a text block was read back from a
\* record whose stored counts were wrong.
CountsNeverStaleWitness ==
    /\ copy # None
    /\ Item(asDict[1], "page_count").v # PageCount(copy[1])
    /\ Item(asDict[1], "total_text_blocks").v # TotalTextBlocks(copy[1])
    /\ TotalTextBlocks(copy[1]) >= 1

---------------------------------------------------------------------------
(* Properties of the table merge *)

\* C23: after the table merge, page i of the document holds exactly the i-th
\* list of tables when there is one, whatever tables it held, and keeps its
\* tables otherwise; lists beyond the last page are dropped; the pages, their
\* order, text blocks and images, and the rest of the document are as before.
TablesMerged ==
    dPc = "merged" =>
        /\ Len(document.pages) = Len(docBefore[1].pages)
        /\ \A i \in 1..Len(document.pages) :
              /\ document.pages[i].tables =
                    IF i <= Len(all_tables) THEN all_tables[i]
                    ELSE docBefore[1].pages[i].tables
              /\ [document.pages[i] EXCEPT !.tables = << >>]
                    = [docBefore[1].pages[i] EXCEPT !.tables = << >>]
        /\ [document EXCEPT !.pages = << >>] = [docBefore[1] EXCEPT !.pages = << >>]

\* C23 witness: a document of two pages, the first with a table and a text
\* block, was merged with the lists of one page, which replaced the table.
TablesMergedWitness ==
    /\ dPc = "merged"
    /\ Len(document.pages) = 2
    /\ Len(all_tables) = 1
    /\ docBefore[1].pages[1].tables # << >>
    /\ docBefore[1].pages[1].text_blocks # << >>
    /\ document.pages[1].tables = all_tables[1]
    /\ document.pages[1].tables # docBefore[1].pages[1].tables

\* C23 witness, the other side: the PDF gave more lists than the document
\* has pages.
TablesMergedDropped ==
    /\ dPc = "merged"
    /\ Len(all_tables) > Len(document.pages)
    /\ all_tables[Len(all_tables)] # << >>

---------------------------------------------------------------------------
(* Properties of the order of the stages and of the pages *)

\* the stage main is in: extraction, table merge, translation, reconstruction
Stage ==
    CASE dPc = "edit" -> 1
      [] dPc = "merged" -> 2
      [] dPc \in {"translate", "translated"} -> 3
      [] OTHER -> 4

\* a log is in page order, and on a page its runs come before its cells
InPageOrder(log, IsCell(_)) ==
    \A a, b \in 1..Len(log) :
        a < b => /\ log[a].page <= log[b].page
                 /\ (log[a].page = log[b].page /\ IsCell(log[a])) => IsCell(log[b])

IsCellCall(e) == e.unit = "cell"

IsCellDraw(e) == e.unit[1] = "cell"

\* only the first k pages hold a translation, and there only units with text
TranslatedUpTo(k) ==
    \A p \in 1..Len(document.pages) :
        LET page == document.pages[p]
            every == AllSpans(page) \o AllCells(page)
        IN  \A n \in 1..Len(every) :
                (UnitAt(page, every[n]).translated_text # None)
                    => (p <= k /\ HasText(UnitAt(page, every[n])))

\* what holds at every moment of a run of main
StagesInOrderNow ==
    /\ Stage = 1 => docBefore = None
    /\ Stage <= 2 => tCalls = << >> /\ TranslatedUpTo(0)
    /\ Stage >= 2 => docBefore # None
    /\ Stage = 3 => TranslatedUpTo(tPage)
    /\ Stage <= 3 => ops = << >>
    /\ Stage = 4 => tPage = Len(document.pages) /\ TranslatedUpTo(tPage)
    /\ InPageOrder(tCalls, IsCellCall)
    /\ \A c \in 1..Len(tCalls) : tCalls[c].page < tPage
    /\ InPageOrder(ops, IsCellDraw)
    /\ \A d \in 1..Len(ops) : ops[d].page <= pageNum

\* C21: main runs extraction, table merge, translation and reconstruction in
\* that order and never goes back to an earlier stage; within translation
\* and within reconstruction the backend calls and the draws come page by
\* page, the runs of a page before its cells, and a page holds no
\* translation before the loop of translate_document has reached it.
StagesAndPagesInOrder ==
    /\ []StagesInOrderNow
    /\ [][Stage' \in {Stage, Stage + 1}]_vars

\* C21 witness: a document of two pages, each with a run and a cell, went
\* through all four stages, with backend calls and draws for the runs and
\* the cells of both pages.
StagesAndPagesWitness ==
    /\ rPc = "done"
    /\ docBefore # None
    /\ \A p \in 0..1 :
          /\ \E c \in 1..Len(tCalls) : tCalls[c].page = p /\ tCalls[c].unit = "run"
          /\ \E c \in 1..Len(tCalls) : tCalls[c].page = p /\ tCalls[c].unit = "cell"
          /\ \E d \in 1..Len(ops) : ops[d].page = p /\ ops[d].unit[1] = "span"
          /\ \E d \in 1..Len(ops) : ops[d].page = p /\ ops[d].unit[1] = "cell"

---------------------------------------------------------------------------
(* Properties of the restore *)

\* the entries of the mapping whose placeholder occurs in the text
PresentIn(text, prot) == SelectSeq(prot, LAMBDA e : Occurrences(text, e[1]) > 0)

\* every occurrence of each entry's placeholder replaced by its original,
\* entry after entry
RECURSIVE ReplaceEach(_, _)
ReplaceEach(text, entries) ==
    IF entries = << >> THEN text
    ELSE ReplaceEach(ReplaceAll(text, Head(entries)[1], Head(entries)[2]), Tail(entries))

\* C20: restore changes the output only at placeholders: an output holding
\* no placeholder of the mapping is returned as it is, an entry whose
\* placeholder is absent from the output has no effect, and the placeholders
\* present are replaced by their originals all the same.
RestoreIgnoresAbsent ==
    gPc = "restored" =>
        /\ PresentIn(gTranslated, gProtected) = << >> => gRestored = gTranslated
        /\ gRestored = ReplaceEach(gTranslated, PresentIn(gTranslated, gProtected))

\* C20 witness: the backend dropped a placeholder of the guarded text and
\* kept another, which restore replaced by its original.
RestoreIgnoresAbsentWitness ==
    /\ gPc = "restored"
    /\ \E a, b \in 1..Len(gProtected) :
          /\ Occurrences(gClean, gProtected[a][1]) > 0
          /\ Occurrences(gTranslated, gProtected[a][1]) = 0
          /\ Occurrences(gTranslated, gProtected[b][1]) > 0
          /\ Occurrences(gRestored, gProtected[b][1]) = 0
          /\ Occurrences(gRestored, gProtected[b][2]) > 0

\* the orders in which n entries can be applied
Orders(n) == {f \in [1..n -> 1..n] : \A a, b \in 1..n : a # b => f[a] # f[b]}

\* the entries of the mapping taken in the order f
Reordered(prot, f) == [k \in 1..Len(prot) |-> prot[f[k]]]

\* C24: the result of restore with the mapping protect gave is the same
\* whatever order the mapping's entries are applied in: every order gives
\* what the dict order gave.
RestoreOrderFree ==
    gPc = "restored" =>
        \A f \in Orders(Len(gProtected)) :
            RestorePatterns(gTranslated, Reordered(gProtected, f)) = gRestored

---------------------------------------------------------------------------
(* Specifications *)

InitGuard == GuardStart /\ BatchIdle /\ DocIdle /\ FitIdle /\ RebuildIdle /\ FontIdle /\ MatrixIdle /\ ConvertIdle /\ TranslateIdle /\ EnrichIdle

SpecGuard == InitGuard /\ [][GuardNext]_vars

InitBatch == BatchStart /\ GuardIdle /\ DocIdle /\ FitIdle /\ RebuildIdle /\ FontIdle /\ MatrixIdle /\ ConvertIdle /\ TranslateIdle /\ EnrichIdle

SpecBatch == InitBatch /\ [][BatchNext]_vars

InitDoc == DocStart /\ GuardIdle /\ BatchIdle /\ FitIdle /\ RebuildIdle /\ FontIdle /\ MatrixIdle /\ ConvertIdle /\ TranslateIdle /\ EnrichIdle

SpecDoc == InitDoc /\ [][DocNext]_vars

InitFit == FitStart /\ GuardIdle /\ BatchIdle /\ DocIdle /\ RebuildIdle /\ FontIdle /\ MatrixIdle /\ ConvertIdle /\ TranslateIdle /\ EnrichIdle

SpecFit == InitFit /\ [][FitNext]_vars

InitCellFit == CellFitStart /\ GuardIdle /\ BatchIdle /\ DocIdle /\ RebuildIdle /\ FontIdle /\ MatrixIdle /\ ConvertIdle /\ TranslateIdle /\ EnrichIdle

SpecCellFit == InitCellFit /\ [][CellFitNext]_vars

InitMatrix == MatrixStart /\ GuardIdle /\ BatchIdle /\ DocIdle /\ FitIdle /\ RebuildIdle /\ FontIdle /\ ConvertIdle /\ TranslateIdle /\ EnrichIdle

SpecMatrix == InitMatrix /\ [][MatrixNext]_vars

InitConvert == ConvertStart /\ GuardIdle /\ BatchIdle /\ DocIdle /\ FitIdle /\ RebuildIdle /\ FontIdle /\ MatrixIdle /\ TranslateIdle /\ EnrichIdle

SpecConvert == InitConvert /\ [][ConvertNext]_vars

InitPipeline == DocStart /\ RebuildIdle /\ TranslateIdle /\ GuardIdle /\ BatchIdle /\ FitIdle /\ FontIdle /\ MatrixIdle /\ ConvertIdle /\ EnrichIdle

SpecPipeline == InitPipeline /\ [][PipelineNext]_vars

InitCounts == DocStart /\ TranslateIdle /\ RebuildIdle /\ GuardIdle /\ BatchIdle /\ FitIdle /\ FontIdle /\ MatrixIdle /\ ConvertIdle /\ EnrichIdle

SpecCounts == InitCounts /\ [][CountsNext]_vars

InitEnrich == DocStart /\ EnrichIdle /\ GuardIdle /\ BatchIdle /\ FitIdle /\ RebuildIdle /\ FontIdle /\ MatrixIdle /\ ConvertIdle /\ TranslateIdle

SpecEnrich == InitEnrich /\ [][EnrichNext]_vars

InitMain == DocStart /\ EnrichIdle /\ TranslateIdle /\ RebuildIdle /\ GuardIdle /\ BatchIdle /\ FitIdle /\ FontIdle /\ MatrixIdle /\ ConvertIdle

SpecMain == InitMain /\ [][MainNext]_vars

InitFont == FontStart /\ GuardIdle /\ BatchIdle /\ DocIdle /\ FitIdle /\ RebuildIdle /\ MatrixIdle /\ ConvertIdle /\ TranslateIdle /\ EnrichIdle

SpecFont == InitFont /\ [][FontNext]_vars

InitRebuild == DocStart /\ RebuildIdle /\ GuardIdle /\ BatchIdle /\ FitIdle /\ FontIdle /\ MatrixIdle /\ ConvertIdle /\ TranslateIdle /\ EnrichIdle

SpecRebuild == InitRebuild /\ [][RebuildNext]_vars

=============================================================================
